---- MODULE Spec2Model ----
(***************************************************************************)
(* A state-machine model of the ARM GIC-400 interrupt controller of vcml   *)
(* (src/src/vcml/models/arm/gic400.cpp).  Every register handler is one    *)
(* atomic action: the simulator is single-threaded and handlers never      *)
(* preempt each other.  CPU masks (the per-CPU bitmasks of irq_state and   *)
(* the SGI source masks) are modelled as the set of their set bit          *)
(* positions; values written to registers are integers and are decoded     *)
(* with the shifts and masks of the handlers.                              *)
(***************************************************************************)
EXTENDS Integers, Sequences, FiniteSets, TLC

(***************************************************************************)
(* Program constants.                                                      *)
(***************************************************************************)
NCPU == 8
NSGI == 16
NPPI == 16
NPRIV == NSGI + NPPI
NIRQ == 1020
IDLE_PRIO == 256
SPURIOUS_IRQ == 1023
ALL_CPU == 0 .. (NCPU - 1)
NLR == 4
VIRT_MIN_BPR == 2

(***************************************************************************)
(* The modelled configuration: the CPUs whose irq_out is bound (m_cpu_num  *)
(* = 2) and the interrupt lines the model follows.                         *)
(***************************************************************************)
Cpus == {0, 1}
SgiIds == {0, 1}
PpiIds == {16}
SpiIds == {32, 64}
Irqs == SgiIds \cup PpiIds \cup SpiIds
PpiIdx == {irq - NSGI : irq \in PpiIds}
SpiIdx == {irq - NPRIV : irq \in SpiIds}
IrqOrNone == Irqs \cup {SPURIOUS_IRQ}

\* the bank keys of a banked register: the CPUs, and the keys an access that
\* no CPU made selects (current_cpu() = -1, and -1 converted to u8)
VBanks == Cpus \cup {-1, 255}

\* the SPI the driver configures at boot, as an index of the SPI tables, and
\* the interrupts that are enabled after boot
BootSpiIdx == {0}
BootIrqs == SgiIds \cup PpiIds \cup {NPRIV + idx : idx \in BootSpiIdx}

\* the modelled interrupt ids in ascending order
RECURSIVE SortedSeq(_)
SortedSeq(S) ==
    IF S = {} THEN <<>>
    ELSE LET m == CHOOSE x \in S : \A y \in S : x <= y
         IN  <<m>> \o SortedSeq(S \ {m})
IrqSeq == SortedSeq(Irqs)

\* gic400::m_irq_num after end_of_elaboration: highest bound SPI + 1
m_irq_num == (CHOOSE x \in SpiIds : \A y \in SpiIds : y <= x) + 1

\* Values the modelled driver writes
PrioVals == {64, 128}
PmrVals == {0, 128, 255}

\* Bounds on the number of handler invocations of one behaviour, one for
\* each specification
MaxSteps == 5
MaxArbSteps == 3
MaxDeepSteps == 7
MaxLevelSteps == 5
MaxCfgSteps == 4
MaxSgiSteps == 4
MaxVirtSteps == 3
MaxVackSteps == 4
MaxAprSteps == 5
MaxInvalidSteps == 4
MaxMsgSteps == 4
MaxSplitSteps == 4
MaxPackedSteps == 4
MaxInputSteps == 5
MaxDeliverSteps == 6
MaxRaceSteps == 6
MaxPollSteps == 4

(***************************************************************************)
(* Bit helpers                                                             *)
(***************************************************************************)
Pow2(n) == 2 ^ n
Field(val, shift, mask) == (val \div Pow2(shift)) % (mask + 1)
TestBit(val, n) == Field(val, n, 1) = 1
BitsOf(val, width) == {n \in 0 .. (width - 1) : TestBit(val, n)}

\* ctz of a mask held as a set of bit positions; 32 for an empty mask
ctz(mask) == IF mask = {} THEN 32 ELSE CHOOSE n \in mask : \A m \in mask : n <= m

is_software_interrupt(irq) == irq < NSGI

VARIABLES
    enabled, pending, active, level, signaled, model, trigger,
    distif_ctlr, ipriority_sgi, ipriority_ppi, ipriority_spi, itargets_spi,
    spendsgir, cpendsgir,
    cpuif_ctlr, pmr, rpr, hppir, iar, m_curr_irq, m_prev_irq, irq_out,
    m_lr_state, vifctrl_hcr, vifctrl_lr, vifctrl_apr,
    vcpuif_ctlr, vcpuif_pmr, vcpuif_bpr, vcpuif_rpr, vcpuif_hppir, virq_out,
    msg, svq, pvq, inp,
    fault, last, ret, budget

gicvars == <<enabled, pending, active, level, signaled, model, trigger,
             distif_ctlr, ipriority_sgi, ipriority_ppi, ipriority_spi,
             itargets_spi, spendsgir, cpendsgir,
             cpuif_ctlr, pmr, rpr, hppir, iar, m_curr_irq, m_prev_irq, irq_out,
             m_lr_state, vifctrl_hcr, vifctrl_lr, vifctrl_apr,
             vcpuif_ctlr, vcpuif_pmr, vcpuif_bpr, vcpuif_rpr, vcpuif_hppir,
             virq_out>>

\* the VirtIO part: the message under assembly, the split and the packed
\* virtqueue with the guest memory they walk, the input device
virtvars == <<msg, svq, pvq, inp>>

vars == <<gicvars, virtvars, fault, last, ret, budget>>

\* The GIC state as one record, so that a handler is a composition of the
\* functions it calls.
G == [enabled |-> enabled, pending |-> pending, active |-> active,
      level |-> level, signaled |-> signaled, model |-> model,
      trigger |-> trigger, distif_ctlr |-> distif_ctlr,
      ipriority_sgi |-> ipriority_sgi, ipriority_ppi |-> ipriority_ppi,
      ipriority_spi |-> ipriority_spi, itargets_spi |-> itargets_spi,
      spendsgir |-> spendsgir, cpendsgir |-> cpendsgir,
      cpuif_ctlr |-> cpuif_ctlr, pmr |-> pmr, rpr |-> rpr, hppir |-> hppir,
      iar |-> iar, m_curr_irq |-> m_curr_irq, m_prev_irq |-> m_prev_irq,
      irq_out |-> irq_out,
      m_lr_state |-> m_lr_state,
      vifctrl_hcr |-> vifctrl_hcr,
      vifctrl_lr |-> vifctrl_lr,
      vifctrl_apr |-> vifctrl_apr,
      vcpuif_ctlr |-> vcpuif_ctlr,
      vcpuif_pmr |-> vcpuif_pmr,
      vcpuif_bpr |-> vcpuif_bpr,
      vcpuif_rpr |-> vcpuif_rpr,
      vcpuif_hppir |-> vcpuif_hppir,
      virq_out |-> virq_out]

GNext == [enabled |-> enabled', pending |-> pending', active |-> active',
      level |-> level', signaled |-> signaled', model |-> model',
      trigger |-> trigger', distif_ctlr |-> distif_ctlr',
      ipriority_sgi |-> ipriority_sgi', ipriority_ppi |-> ipriority_ppi',
      ipriority_spi |-> ipriority_spi', itargets_spi |-> itargets_spi',
      spendsgir |-> spendsgir', cpendsgir |-> cpendsgir',
      cpuif_ctlr |-> cpuif_ctlr', pmr |-> pmr', rpr |-> rpr', hppir |-> hppir',
      iar |-> iar', m_curr_irq |-> m_curr_irq', m_prev_irq |-> m_prev_irq',
      irq_out |-> irq_out',
      m_lr_state |-> m_lr_state',
      vifctrl_hcr |-> vifctrl_hcr',
      vifctrl_lr |-> vifctrl_lr',
      vifctrl_apr |-> vifctrl_apr',
      vcpuif_ctlr |-> vcpuif_ctlr',
      vcpuif_pmr |-> vcpuif_pmr',
      vcpuif_bpr |-> vcpuif_bpr',
      vcpuif_rpr |-> vcpuif_rpr',
      vcpuif_hppir |-> vcpuif_hppir',
      virq_out |-> virq_out']

(***************************************************************************)
(* irq_state accessors of gic400                                           *)
(***************************************************************************)
enable_irq(g, irq, mask) == [g EXCEPT !.enabled[irq] = @ \cup mask]
disable_irq(g, irq, mask) == [g EXCEPT !.enabled[irq] = @ \ mask]
is_irq_enabled(g, irq, mask) == g.enabled[irq] \cap mask # {}

set_irq_pending(g, irq, p, mask) ==
    [g EXCEPT !.pending[irq] = IF p THEN @ \cup mask ELSE @ \ mask]
is_irq_pending(g, irq, mask) == g.pending[irq] \cap mask # {}

set_irq_active(g, irq, a, mask) ==
    [g EXCEPT !.active[irq] = IF a THEN @ \cup mask ELSE @ \ mask]
is_irq_active(g, irq, mask) == g.active[irq] \cap mask # {}

set_irq_level(g, irq, l, mask) ==
    [g EXCEPT !.level[irq] = IF l THEN @ \cup mask ELSE @ \ mask]
get_irq_level(g, irq, mask) == g.level[irq] \cap mask # {}

set_irq_signaled(g, irq, s, mask) ==
    [g EXCEPT !.signaled[irq] = IF s THEN @ \cup mask ELSE @ \ mask]

get_irq_model(g, irq) == IF irq \in Irqs THEN g.model[irq] ELSE "N_N"
get_irq_trigger(g, irq) == g.trigger[irq]
set_irq_trigger(g, irq, t) == [g EXCEPT !.trigger[irq] = t]

test_pending(g, irq, mask) ==
    \/ is_irq_pending(g, irq, mask)
    \/ (get_irq_trigger(g, irq) = "LEVEL" /\ get_irq_level(g, irq, mask))

(***************************************************************************)
(* gic400::get_irq_priority                                                *)
(***************************************************************************)
get_irq_priority(g, cpu, irq) ==
    IF irq < NSGI THEN g.ipriority_sgi[cpu][irq]
    ELSE IF irq < NPRIV THEN g.ipriority_ppi[cpu][irq - NSGI]
    ELSE IF irq < NIRQ THEN g.ipriority_spi[irq - NPRIV]
    ELSE 0

(***************************************************************************)
(* gic400::update(virt = false)                                            *)
(***************************************************************************)
\* the condition of the three scan loops for one interrupt
scan_cond(g, cpu, irq) ==
    /\ is_irq_enabled(g, irq, {cpu})
    /\ test_pending(g, irq, {cpu})
    /\ (irq >= NPRIV => g.itargets_spi[irq - NPRIV] \cap {cpu} # {})
    /\ ~is_irq_active(g, irq, {cpu})

\* the priority register each scan loop reads
scan_prio(g, cpu, irq) ==
    IF irq < NSGI THEN g.ipriority_sgi[cpu][irq]
    ELSE IF irq < NPRIV THEN g.ipriority_ppi[cpu][irq - NSGI]
    ELSE g.ipriority_spi[irq - NPRIV]

\* scan_step with the comparison weakened: a later interrupt of equal
\* priority replaces the best one
scan_step_last_wins(g, cpu, irq, best) ==
    IF scan_cond(g, cpu, irq) /\ scan_prio(g, cpu, irq) <= best[2]
    THEN <<irq, scan_prio(g, cpu, irq)>>
    ELSE best

\* one loop iteration on best == <<best_irq, best_prio>>
scan_step(g, cpu, irq, best) ==
    IF scan_cond(g, cpu, irq) /\ scan_prio(g, cpu, irq) < best[2]
    THEN <<irq, scan_prio(g, cpu, irq)>>
    ELSE best

\* the three loops visit the interrupts in ascending order: SGIs, PPIs, SPIs
RECURSIVE scan(_, _, _, _)
scan(g, cpu, n, best) ==
    IF n > Len(IrqSeq) THEN best
    ELSE scan(g, cpu, n + 1, scan_step(g, cpu, IrqSeq[n], best))

\* update_cpu without the comparison against the running priority
update_cpu_ignores_rpr(g, cpu) ==
    IF g.distif_ctlr = 0 \/ g.cpuif_ctlr[cpu] = 0
    THEN <<SPURIOUS_IRQ, FALSE>>
    ELSE LET best == scan(g, cpu, 1, <<SPURIOUS_IRQ, IDLE_PRIO>>)
         IN  IF best[2] < g.pmr[cpu]
             THEN <<best[1], TRUE>>
             ELSE <<SPURIOUS_IRQ, FALSE>>

\* <<hppir, irq_out>> of one CPU
update_cpu(g, cpu) ==
    IF g.distif_ctlr = 0 \/ g.cpuif_ctlr[cpu] = 0
    THEN <<SPURIOUS_IRQ, FALSE>>
    ELSE LET best == scan(g, cpu, 1, <<SPURIOUS_IRQ, IDLE_PRIO>>)
         IN  IF best[2] < g.pmr[cpu]
             THEN <<best[1], best[2] < g.rpr[cpu]>>
             ELSE <<SPURIOUS_IRQ, FALSE>>

update(g) ==
    LET res == [cpu \in Cpus |-> update_cpu(g, cpu)]
    IN  [g EXCEPT !.hppir = [cpu \in Cpus |-> res[cpu][1]],
                  !.irq_out = [cpu \in Cpus |-> res[cpu][2]]]

(***************************************************************************)
(* Distributor: SGI source bookkeeping and register write handlers         *)
(***************************************************************************)
\* gic400::distif::set_sgi_pending; value is the u8 source mask
set_sgi_pending(g, value, sgi, cpu, set) ==
    IF set
    THEN [g EXCEPT !.spendsgir[cpu][sgi] = @ \cup value,
                   !.cpendsgir[cpu][sgi] = @ \cup value]
    ELSE [g EXCEPT !.spendsgir[cpu][sgi] = @ \ value,
                   !.cpendsgir[cpu][sgi] = @ \ value]

\* gic400::distif::write_ctlr
distif_write_ctlr(g, val) == update([g EXCEPT !.distif_ctlr = val % 4])

\* sgir_targets whose filter 1 does not exclude the writing CPU
sgir_targets_with_self(cpu, value) ==
    LET filters == Field(value, 24, 3)
    IN  IF filters = 1 THEN ALL_CPU
        ELSE IF filters = 2 THEN {cpu}
        ELSE BitsOf(Field(value, 16, 255), 8)

\* the target mask write_sgir selects from the filter field
sgir_targets(cpu, value) ==
    LET filters == Field(value, 24, 3)
    IN  IF filters = 1 THEN ALL_CPU \ {cpu}
        ELSE IF filters = 2 THEN {cpu}
        ELSE BitsOf(Field(value, 16, 255), 8)

RECURSIVE sgir_sources(_, _, _, _, _)
sgir_sources(g, cpu, sgi_num, targets, target) ==
    IF target >= NCPU THEN g
    ELSE sgir_sources(IF target \in targets
                      THEN set_sgi_pending(g, {cpu}, sgi_num, target, TRUE)
                      ELSE g,
                      cpu, sgi_num, targets, target + 1)

\* gic400::distif::write_sgir
write_sgir(g, cpu, value) ==
    LET sgi_num == Field(value, 0, 15)
        targets == sgir_targets(cpu, value)
        g1 == set_irq_pending(g, sgi_num, TRUE, targets)
        g2 == sgir_sources(g1, cpu, sgi_num, targets, 0)
        g3 == set_irq_signaled(g2, sgi_num, FALSE, targets)
    IN  update(g3)

\* gic400::distif::write_spendsgir; value is a u8
write_spendsgir(g, cpu, value, idx) ==
    LET g1 == set_sgi_pending(g, BitsOf(value, 8), idx, cpu, TRUE)
        g2 == set_irq_pending(g1, idx, TRUE, {cpu})
        g3 == set_irq_signaled(g2, idx, FALSE, {cpu})
    IN  update(g3)

\* gic400::distif::write_cpendsgir
write_cpendsgir(g, cpu, value, idx) ==
    LET g1 == set_sgi_pending(g, BitsOf(value, 8), idx, cpu, FALSE)
        g2 == IF g1.cpendsgir[cpu][idx] = {}
              THEN set_irq_pending(g1, idx, FALSE, {cpu})
              ELSE g1
    IN  update(g2)

\* the loop of write_icactiver_ppi over irq = 0 .. 31
RECURSIVE icactiver_ppi_loop(_, _, _, _)
icactiver_ppi_loop(g, cpu, val, irq) ==
    IF irq >= 32 THEN g
    ELSE icactiver_ppi_loop(IF irq \in Irqs /\ TestBit(val, irq)
                            THEN set_irq_active(g, irq, FALSE, {cpu})
                            ELSE g,
                            cpu, val, irq + 1)

\* gic400::distif::write_icactiver_ppi (no update)
write_icactiver_ppi(g, cpu, val) == icactiver_ppi_loop(g, cpu, val, 0)

RECURSIVE icactiver_spi_loop(_, _, _, _)
icactiver_spi_loop(g, val, idx, i) ==
    IF i >= 32 THEN g
    ELSE icactiver_spi_loop(IF (NPRIV + idx * 32 + i) \in Irqs /\ TestBit(val, i)
                            THEN set_irq_active(g, NPRIV + idx * 32 + i, FALSE, ALL_CPU)
                            ELSE g,
                            val, idx, i + 1)

\* gic400::distif::write_icactiver_spi (no update)
write_icactiver_spi(g, val, idx) == icactiver_spi_loop(g, val, idx, 0)

\* The enable, pending and configuration handlers run a loop over the bits
\* of the written value; an iteration touches only the state of its own
\* interrupt, so the loop is the pointwise update below.

\* gic400::distif::write_isenabler_ppi
write_isenabler_ppi(g, cpu, val) ==
    LET hit(irq) == irq \in PpiIds /\ TestBit(val, irq)
        g1 == [g EXCEPT !.enabled = [irq \in Irqs |->
                  IF hit(irq) THEN g.enabled[irq] \cup {cpu} ELSE g.enabled[irq]]]
        g2 == [g1 EXCEPT !.pending = [irq \in Irqs |->
                  IF hit(irq) /\ get_irq_level(g, irq, {cpu})
                              /\ get_irq_trigger(g, irq) = "LEVEL"
                  THEN g.pending[irq] \cup {cpu} ELSE g.pending[irq]]]
    IN  update(g2)

\* write_isenabler_spi without the test of the trigger mode
write_isenabler_spi_any_trigger(g, val, idx) ==
    LET hit(irq) == irq \in SpiIds /\ irq - NPRIV - idx * 32 \in 0 .. 31
                    /\ TestBit(val, irq - NPRIV - idx * 32)
        g1 == [g EXCEPT !.enabled = [irq \in Irqs |->
                  IF hit(irq) THEN g.enabled[irq] \cup ALL_CPU ELSE g.enabled[irq]]]
        g2 == [g1 EXCEPT !.pending = [irq \in Irqs |->
                  IF hit(irq) /\ get_irq_level(g, irq, ALL_CPU)
                  THEN g.pending[irq] \cup ALL_CPU ELSE g.pending[irq]]]
    IN  update(g2)

\* gic400::distif::write_isenabler_spi
write_isenabler_spi(g, val, idx) ==
    LET hit(irq) == irq \in SpiIds /\ irq - NPRIV - idx * 32 \in 0 .. 31
                    /\ TestBit(val, irq - NPRIV - idx * 32)
        g1 == [g EXCEPT !.enabled = [irq \in Irqs |->
                  IF hit(irq) THEN g.enabled[irq] \cup ALL_CPU ELSE g.enabled[irq]]]
        g2 == [g1 EXCEPT !.pending = [irq \in Irqs |->
                  IF hit(irq) /\ get_irq_level(g, irq, ALL_CPU)
                              /\ get_irq_trigger(g, irq) = "LEVEL"
                  THEN g.pending[irq] \cup ALL_CPU ELSE g.pending[irq]]]
    IN  update(g2)

\* write_icenabler_ppi with its loop started at interrupt 0 instead of NSGI
write_icenabler_ppi_from_zero(g, cpu, val) ==
    update([g EXCEPT !.enabled = [irq \in Irqs |->
               IF irq < NPRIV /\ TestBit(val, irq)
               THEN g.enabled[irq] \ {cpu} ELSE g.enabled[irq]]])

\* gic400::distif::write_icenabler_ppi
write_icenabler_ppi(g, cpu, val) ==
    update([g EXCEPT !.enabled = [irq \in Irqs |->
               IF irq \in PpiIds /\ TestBit(val, irq)
               THEN g.enabled[irq] \ {cpu} ELSE g.enabled[irq]]])

\* gic400::distif::write_icenabler_spi
write_icenabler_spi(g, val, idx) ==
    update([g EXCEPT !.enabled = [irq \in Irqs |->
               IF irq \in SpiIds /\ irq - NPRIV - idx * 32 \in 0 .. 31
                  /\ TestBit(val, irq - NPRIV - idx * 32)
               THEN g.enabled[irq] \ ALL_CPU ELSE g.enabled[irq]]])

\* gic400::distif::write_ispendr_ppi
write_ispendr_ppi(g, cpu, value) ==
    update([g EXCEPT !.pending = [irq \in Irqs |->
               IF irq \in PpiIds /\ TestBit(value, irq)
               THEN g.pending[irq] \cup {cpu} ELSE g.pending[irq]]])

\* itargets_spi[i]; a register the model does not follow keeps its reset value
itargets_of(g, i) == IF i \in SpiIdx THEN g.itargets_spi[i] ELSE {}

\* gic400::distif::write_sspr: bit i of register idx uses itargets_spi[i]
write_sspr(g, value, idx) ==
    update([g EXCEPT !.pending = [irq \in Irqs |->
               IF irq \in SpiIds /\ irq - NPRIV - idx * 32 \in 0 .. 31
                  /\ TestBit(value, irq - NPRIV - idx * 32)
               THEN g.pending[irq] \cup itargets_of(g, irq - NPRIV - idx * 32)
               ELSE g.pending[irq]]])

\* gic400::distif::write_icpendr_ppi
write_icpendr_ppi(g, cpu, value) ==
    update([g EXCEPT !.pending = [irq \in Irqs |->
               IF irq \in PpiIds /\ TestBit(value, irq)
               THEN g.pending[irq] \ {cpu} ELSE g.pending[irq]]])

\* gic400::distif::write_icpendr_spi
write_icpendr_spi(g, val, idx) ==
    update([g EXCEPT !.pending = [irq \in Irqs |->
               IF irq \in SpiIds /\ irq - NPRIV - idx * 32 \in 0 .. 31
                  /\ TestBit(val, irq - NPRIV - idx * 32)
               THEN g.pending[irq] \ ALL_CPU ELSE g.pending[irq]]])

\* gic400::distif::write_icfgr: bit 2i+1 of the value configures PPI i
write_icfgr(g, value) ==
    update([g EXCEPT !.trigger = [irq \in Irqs |->
               IF irq \in PpiIds
               THEN (IF TestBit(value, 2 * (irq - NSGI) + 1) THEN "EDGE" ELSE "LEVEL")
               ELSE g.trigger[irq]]])

\* gic400::distif::write_icfgr_spi: register idx configures 16 SPIs
write_icfgr_spi(g, value, idx) ==
    update([g EXCEPT !.trigger = [irq \in Irqs |->
               IF irq \in SpiIds /\ irq - NPRIV - idx * 16 \in 0 .. 15
               THEN (IF TestBit(value, 2 * (irq - NPRIV - idx * 16) + 1)
                     THEN "EDGE" ELSE "LEVEL")
               ELSE g.trigger[irq]]])

\* gic400::handle_ppi
handle_ppi(g, cpu, idx, state) ==
    LET irq == NSGI + idx
        g1 == set_irq_level(g, irq, state, {cpu})
        g2 == set_irq_signaled(g1, irq, FALSE, ALL_CPU)
        g3 == IF get_irq_trigger(g2, irq) = "EDGE" /\ state
              THEN set_irq_pending(g2, irq, TRUE, {cpu})
              ELSE g2
    IN  update(g3)

\* gic400::handle_spi
handle_spi(g, idx, state) ==
    LET irq == NPRIV + idx
        target_cpu == g.itargets_spi[idx]
        g1 == set_irq_level(g, irq, state, ALL_CPU)
        g2 == set_irq_signaled(g1, irq, FALSE, ALL_CPU)
        g3 == IF get_irq_trigger(g2, irq) = "EDGE" /\ state
              THEN set_irq_pending(g2, irq, TRUE, target_cpu)
              ELSE g2
    IN  update(g3)

(***************************************************************************)
(* CPU interface                                                           *)
(***************************************************************************)
\* gic400::cpuif::set_current_irq
set_current_irq(g, cpu, irq) ==
    LET g1 == [g EXCEPT !.m_curr_irq[cpu] = irq]
        g2 == [g1 EXCEPT !.rpr[cpu] = IF irq = SPURIOUS_IRQ
                                      THEN IDLE_PRIO
                                      ELSE get_irq_priority(g1, cpu, irq)]
    IN  update(g2)

\* gic400::cpuif::write_ctlr (CTLR_ENABLE is bit 0; no update)
cpuif_write_ctlr(g, cpu, val) == [g EXCEPT !.cpuif_ctlr[cpu] = val % 2]

\* gic400::cpuif::write_pmr (no update)
write_pmr(g, cpu, val) == [g EXCEPT !.pmr[cpu] = val % 256]

\* the search loop of write_eoir for an interrupt that is not running; it
\* does not modify anything before it breaks, so it hangs exactly when it
\* has not stopped after visiting every interrupt once
RECURSIVE eoir_unlink(_, _, _, _, _)
eoir_unlink(g, cpu, irq, iter, fuel) ==
    IF g.m_prev_irq[iter][cpu] = SPURIOUS_IRQ
    THEN [g |-> g, fault |-> "none"]
    ELSE IF g.m_prev_irq[iter][cpu] = irq
    THEN [g |-> [g EXCEPT !.m_prev_irq[iter][cpu] = g.m_prev_irq[irq][cpu]],
          fault |-> "none"]
    ELSE IF fuel = 0
    THEN [g |-> g, fault |-> "hang"]
    ELSE eoir_unlink(g, cpu, irq, g.m_prev_irq[iter][cpu], fuel - 1)

\* eoir_pop without its trailing update
eoir_pop_no_update(g, cpu, irq) ==
    LET g1 == set_current_irq(g, cpu, g.m_prev_irq[irq][cpu])
    IN  set_irq_active(g1, irq, FALSE, {cpu})

\* write_eoir naming the running interrupt: pop the preemption stack
eoir_pop(g, cpu, irq) ==
    LET g1 == set_current_irq(g, cpu, g.m_prev_irq[irq][cpu])
        g2 == set_irq_active(g1, irq, FALSE, {cpu})
    IN  update(g2)

\* write_eoir running update() before its early returns
write_eoir_updates_first(g, cpu, val) ==
    LET irq == val % 1024
    IN  IF g.m_curr_irq[cpu] = SPURIOUS_IRQ
        THEN [g |-> update(g), fault |-> "none"]
        ELSE IF irq >= m_irq_num
        THEN [g |-> update(g), fault |-> "none"]
        ELSE IF irq = g.m_curr_irq[cpu]
        THEN [g |-> eoir_pop(g, cpu, irq), fault |-> "none"]
        ELSE eoir_unlink(g, cpu, irq, g.m_curr_irq[cpu], Cardinality(Irqs))

\* gic400::cpuif::write_eoir; the result is the new state and whether the
\* handler returned
write_eoir(g, cpu, val) ==
    LET irq == val % 1024
    IN  IF g.m_curr_irq[cpu] = SPURIOUS_IRQ
        THEN [g |-> g, fault |-> "none"]
        ELSE IF irq >= m_irq_num
        THEN [g |-> g, fault |-> "none"]
        ELSE IF irq = g.m_curr_irq[cpu]
        THEN [g |-> eoir_pop(g, cpu, irq), fault |-> "none"]
        ELSE eoir_unlink(g, cpu, irq, g.m_curr_irq[cpu], Cardinality(Irqs))

\* iar_spurious letting an interrupt of equal priority through
iar_spurious_equal_passes(g, cpu, irq) ==
    irq = SPURIOUS_IRQ \/ get_irq_priority(g, cpu, irq) > g.rpr[cpu]

\* read_iar: the test for "nothing to acknowledge"
iar_spurious(g, cpu, irq) ==
    irq = SPURIOUS_IRQ \/ get_irq_priority(g, cpu, irq) >= g.rpr[cpu]

\* the highest bit set in a CPU mask
clz_pos(mask) == CHOOSE b \in mask : \A o \in mask : o <= b

\* iar_ack_sgi popping the highest source CPU instead of the lowest
iar_ack_sgi_highest(g, cpu, irq, cpu_mask) ==
    LET src_cpu == clz_pos(g.spendsgir[cpu][irq])
        g1 == set_sgi_pending(g, {src_cpu}, irq, cpu, FALSE)
        g2 == IF g1.spendsgir[cpu][irq] = {}
              THEN set_irq_pending(g1, irq, FALSE, cpu_mask)
              ELSE g1
    IN  [g2 EXCEPT !.iar[cpu] = (src_cpu % 8) * 1024 + irq]

\* read_iar acknowledging an SGI: pop the lowest source CPU and report it
iar_ack_sgi(g, cpu, irq, cpu_mask) ==
    LET src_cpu == ctz(g.spendsgir[cpu][irq])
        g1 == set_sgi_pending(g, {src_cpu}, irq, cpu, FALSE)
        g2 == IF g1.spendsgir[cpu][irq] = {}
              THEN set_irq_pending(g1, irq, FALSE, cpu_mask)
              ELSE g1
    IN  [g2 EXCEPT !.iar[cpu] = (src_cpu % 8) * 1024 + irq]

\* read_iar acknowledging a PPI or an SPI
iar_ack_other(g, cpu, irq, cpu_mask) ==
    [set_irq_pending(g, irq, FALSE, cpu_mask) EXCEPT !.iar[cpu] = irq]

\* iar_activate without the push of the running interrupt
iar_activate_no_push(g, cpu, irq, cpu_mask) ==
    LET g2 == set_current_irq(g, cpu, irq)
        g3 == set_irq_active(g2, irq, TRUE, cpu_mask)
    IN  set_irq_signaled(g3, irq, TRUE, cpu_mask)

\* read_iar: push the running interrupt and make irq the running one
iar_activate(g, cpu, irq, cpu_mask) ==
    LET g1 == [g EXCEPT !.m_prev_irq[irq][cpu] = g.m_curr_irq[cpu]]
        g2 == set_current_irq(g1, cpu, irq)
        g3 == set_irq_active(g2, irq, TRUE, cpu_mask)
    IN  set_irq_signaled(g3, irq, TRUE, cpu_mask)

\* gic400::cpuif::read_iar; the result is the new state, the value read and
\* whether VCML_ERROR_ON stopped the handler
read_iar(g, cpu) ==
    LET irq == g.hppir[cpu]
        cpu_mask == IF get_irq_model(g, irq) = "N_1" THEN ALL_CPU ELSE {cpu}
    IN  IF iar_spurious(g, cpu, irq)
        THEN [g |-> g, ret |-> SPURIOUS_IRQ, fault |-> "none"]
        ELSE IF is_software_interrupt(irq) /\ ctz(g.spendsgir[cpu][irq]) > 8
        THEN [g |-> g, ret |-> SPURIOUS_IRQ, fault |-> "error"]
        ELSE LET g1 == IF is_software_interrupt(irq)
                       THEN iar_ack_sgi(g, cpu, irq, cpu_mask)
                       ELSE iar_ack_other(g, cpu, irq, cpu_mask)
             IN  [g |-> iar_activate(g1, cpu, irq, cpu_mask),
                  ret |-> g1.iar[cpu], fault |-> "none"]

(***************************************************************************)
(* Plain read-write registers without a write handler                      *)
(***************************************************************************)
write_ipriority_sgi(g, cpu, irq, val) == [g EXCEPT !.ipriority_sgi[cpu][irq] = val % 256]
write_ipriority_ppi(g, cpu, idx, val) == [g EXCEPT !.ipriority_ppi[cpu][idx] = val % 256]
write_ipriority_spi(g, idx, val) == [g EXCEPT !.ipriority_spi[idx] = val % 256]
write_itargets_spi(g, idx, val) == [g EXCEPT !.itargets_spi[idx] = BitsOf(val, 8)]

(***************************************************************************)
(* Virtual interface control (vifctrl) and virtual CPU interface (vcpuif)  *)
(*                                                                         *)
(* The handlers of this part take the value current_cpu() returned, which  *)
(* is negative for an access that no CPU made.  A banked register is a     *)
(* function of the bank key the handler passes; the list-register state    *)
(* table m_lr_state has one row per CPU, and an access to a row that does  *)
(* not exist is undefined behaviour: its outcome is the input ub.          *)
(***************************************************************************)
\* a 32-bit register value as its two 16-bit halves
U32(hi, lo) == [hi |-> hi, lo |-> lo]

\* (val >> shift) & mask for a mask of the form 2^k - 1, k <= 16
Field32(val, shift, mask) ==
    IF shift >= 16
    THEN (val.hi \div Pow2(shift - 16)) % (mask + 1)
    ELSE ((val.hi % Pow2(shift)) * Pow2(16 - shift) + (val.lo \div Pow2(shift))) % (mask + 1)

\* val | (1 << n) when b, val & ~(1 << n) otherwise, for a bit of the high half
SetBit32(val, n, b) ==
    LET cleared == val.hi - Field32(val, n, 1) * Pow2(n - 16)
    IN  [val EXCEPT !.hi = IF b THEN cleared + Pow2(n - 16) ELSE cleared]

LR_PENDING_BIT == 28
LR_ACTIVE_BIT == 29

\* the conversion of an int to u8
u8(x) == x % 256

\* fls of a mask held as a set of bit positions: the highest set bit
fls(mask) == CHOOSE n \in mask : \A m \in mask : m <= n

\* x & 0x111 for x < 4096
And0x111(x) == (x % 2) + 16 * ((x \div 16) % 2) + 256 * ((x \div 256) % 2)

\* list_entry::list_entry()
list_entry == [pending |-> FALSE, active |-> FALSE, hw |-> FALSE, prio |-> 0,
               virtual_id |-> 0, physical_id |-> 0, cpu_id |-> 0]

\* the list-register accessors of vifctrl
set_lr_pending(g, lr, cpu, p) == [g EXCEPT !.m_lr_state[cpu][lr].pending = p]
set_lr_active(g, lr, cpu, a) == [g EXCEPT !.m_lr_state[cpu][lr].active = a]
set_lr_hw(g, lr, cpu, h) == [g EXCEPT !.m_lr_state[cpu][lr].hw = h]
set_lr_prio(g, lr, cpu, prio) == [g EXCEPT !.m_lr_state[cpu][lr].prio = prio]
set_lr_vid(g, lr, cpu, irq) == [g EXCEPT !.m_lr_state[cpu][lr].virtual_id = irq]
set_lr_physid(g, lr, cpu, irq) == [g EXCEPT !.m_lr_state[cpu][lr].physical_id = irq]
set_lr_cpuid(g, lr, cpu, id) == [g EXCEPT !.m_lr_state[cpu][lr].cpu_id = id]
is_lr_pending(g, lr, cpu) == g.m_lr_state[cpu][lr].pending
is_lr_active(g, lr, cpu) == g.m_lr_state[cpu][lr].active
is_lr_hw(g, lr, cpu) == g.m_lr_state[cpu][lr].hw
get_lr_physid(g, lr, cpu) == g.m_lr_state[cpu][lr].physical_id
get_lr_cpuid(g, lr, cpu) == g.m_lr_state[cpu][lr].cpu_id

\* one iteration of the list-register loop of gic400::update(true), with
\* ties resolved for the later list register
lr_scan_step_last_wins(g, cpu, lr_idx, best) ==
    LET prio == Field32(g.vifctrl_lr[cpu][lr_idx], 23, 31)
    IN  IF is_lr_pending(g, lr_idx, cpu) /\ prio <= best[2]
        THEN <<Field32(g.vifctrl_lr[cpu][lr_idx], 0, 511), prio>>
        ELSE best

\* one iteration of the list-register loop of gic400::update(true)
lr_scan_step(g, cpu, lr_idx, best) ==
    LET prio == Field32(g.vifctrl_lr[cpu][lr_idx], 23, 31)
    IN  IF is_lr_pending(g, lr_idx, cpu) /\ prio < best[2]
        THEN <<Field32(g.vifctrl_lr[cpu][lr_idx], 0, 511), prio>>
        ELSE best

RECURSIVE lr_scan(_, _, _, _)
lr_scan(g, cpu, lr_idx, best) ==
    IF lr_idx >= NLR THEN best
    ELSE lr_scan(g, cpu, lr_idx + 1, lr_scan_step(g, cpu, lr_idx, best))

\* gic400::update(true) for one CPU: the new virtual HPPIR and virq_out
update_virt_cpu(g, cpu) ==
    IF g.vifctrl_hcr[cpu] = 0
    THEN <<SPURIOUS_IRQ, FALSE>>
    ELSE LET best == lr_scan(g, cpu, 0, <<SPURIOUS_IRQ, IDLE_PRIO>>)
         IN  IF best[2] < g.vcpuif_pmr[cpu]
             THEN <<best[1], best[2] < g.vcpuif_rpr[cpu]>>
             ELSE <<SPURIOUS_IRQ, FALSE>>

\* gic400::update(true)
update_virt(g) ==
    LET res == [cpu \in Cpus |-> update_virt_cpu(g, cpu)]
    IN  [g EXCEPT !.vcpuif_hppir = [bank \in VBanks |->
                      IF bank \in Cpus THEN res[bank][1] ELSE g.vcpuif_hppir[bank]],
                  !.virq_out = [cpu \in Cpus |-> res[cpu][2]]]

\* what a handler of this part leaves: the state, the value read, and
\* whether the simulation went on
Done(g) == [g |-> g, ret |-> 0, fault |-> "none"]
Returned(g, value) == [g |-> g, ret |-> value, fault |-> "none"]
Aborted(g) == [g |-> g, ret |-> 0, fault |-> "out_of_bounds"]

\* gic400::vifctrl::write_hcr
write_hcr(g, cpu, val) == Done(update_virt([g EXCEPT !.vifctrl_hcr[cpu] = val]))

\* the hw = 0 and hw = 1 branches of write_lr
write_lr_source(g, cpu, val, idx) ==
    IF Field32(val, 31, 1) = 0
    THEN set_lr_physid(set_lr_hw(set_lr_cpuid(g, idx, cpu, Field32(val, 10, 7)),
                                 idx, cpu, FALSE), idx, cpu, 0)
    ELSE set_lr_physid(set_lr_hw(set_lr_cpuid(g, idx, cpu, 0), idx, cpu, TRUE),
                       idx, cpu, Field32(val, 10, 511))

\* the three tests of the state field in write_lr
write_lr_state(g, cpu, val, idx) ==
    LET state == Field32(val, 28, 3)
        g1 == IF state % 2 = 1 THEN set_lr_pending(g, idx, cpu, TRUE) ELSE g
        g2 == IF state \div 2 = 1 THEN set_lr_active(g1, idx, cpu, TRUE) ELSE g1
    IN  IF state = 0
        THEN set_lr_active(set_lr_pending(g2, idx, cpu, FALSE), idx, cpu, FALSE)
        ELSE g2

\* gic400::vifctrl::write_lr
write_lr(g, cpu, val, idx, ub) ==
    IF u8(cpu) \notin Cpus
    THEN IF ub = "abort" THEN Aborted(g)
         ELSE Done(update_virt([g EXCEPT !.vifctrl_lr[cpu][idx] = val]))
    ELSE LET g1 == write_lr_source(g, u8(cpu), val, idx)
             g2 == write_lr_state(g1, u8(cpu), val, idx)
             g3 == set_lr_vid(set_lr_prio(g2, idx, u8(cpu), Field32(val, 23, 31)),
                              idx, u8(cpu), Field32(val, 0, 511))
         IN  Done(update_virt([g3 EXCEPT !.vifctrl_lr[cpu][idx] = val]))

\* gic400::vifctrl::read_lr
read_lr(g, cpu, idx, ub) ==
    IF u8(cpu) \notin Cpus /\ ub = "abort" THEN Aborted(g)
    ELSE LET p == IF u8(cpu) \in Cpus THEN is_lr_pending(g, idx, u8(cpu)) ELSE ub = "one"
             a == IF u8(cpu) \in Cpus THEN is_lr_active(g, idx, u8(cpu)) ELSE ub = "one"
             v == SetBit32(SetBit32(g.vifctrl_lr[cpu][idx], LR_PENDING_BIT, p),
                           LR_ACTIVE_BIT, a)
         IN  Returned([g EXCEPT !.vifctrl_lr[cpu][idx] = v], v)

\* gic400::vifctrl::write_vmcr
write_vmcr(g, cpu, val) ==
    Done([g EXCEPT !.vcpuif_pmr[cpu] = Field(val, 27, 31) * 8,
                   !.vcpuif_bpr[cpu] = Field(val, 21, 3),
                   !.vcpuif_ctlr[cpu] = Field(val, 0, 511)])

\* gic400::vifctrl::write_apr
write_apr(g, cpu, val) ==
    LET prio == IF val # 0 THEN u8(fls(BitsOf(val, 31)) * Pow2(VIRT_MIN_BPR + 1))
                ELSE u8(IDLE_PRIO)
    IN  Done([g EXCEPT !.vcpuif_rpr[cpu] = prio,
                       !.vifctrl_apr[cpu] = BitsOf(val, 31)])

\* the list registers of a CPU that hold a virtual interrupt, active or pending
lr_matches(g, cpu, irq) ==
    {i \in 0 .. (NLR - 1) : /\ g.m_lr_state[cpu][i].virtual_id = irq
                            /\ (g.m_lr_state[cpu][i].active \/ g.m_lr_state[cpu][i].pending)}

\* gic400::vifctrl::get_irq_priority
vifctrl_get_irq_priority(g, cpu, irq) ==
    IF lr_matches(g, cpu, irq) = {} THEN 0
    ELSE g.m_lr_state[cpu][ctz(lr_matches(g, cpu, irq))].prio

\* gic400::vifctrl::get_lr
get_lr(g, irq, cpu) ==
    IF lr_matches(g, cpu, irq) = {} THEN 0 ELSE ctz(lr_matches(g, cpu, irq))

\* gic400::vcpuif::read_iar
vcpuif_read_iar(g, cpu, ub) ==
    LET c == u8(cpu)
        irq == g.vcpuif_hppir[c]
    IN  IF irq = SPURIOUS_IRQ THEN Returned(g, SPURIOUS_IRQ)
        ELSE IF c \notin Cpus THEN Aborted(g)
        ELSE IF vifctrl_get_irq_priority(g, c, irq) >= g.vcpuif_rpr[c]
        THEN Returned(g, SPURIOUS_IRQ)
        ELSE LET prio == vifctrl_get_irq_priority(g, c, irq) * 8
                 width == Pow2((g.vcpuif_bpr[c] % 8) + 1)
                 bitno == (prio \div Pow2(VIRT_MIN_BPR + 1)) % 32
                 lr == get_lr(g, irq, c)
                 g1 == [g EXCEPT !.vcpuif_rpr[c] = (prio \div width) * width,
                                 !.vifctrl_apr[c] = @ \cup {bitno}]
                 g2 == set_lr_pending(set_lr_active(g1, lr, c, TRUE), lr, c, FALSE)
             IN  Returned(update_virt(g2),
                          And0x111(get_lr_cpuid(g2, lr, c)) * 1024 + irq)

\* the branch of vcpuif::write_eoir that deactivates the interrupt of a list
\* register with the hw bit
eoir_deactivate_hw(g, lr, cpu) ==
    IF is_lr_hw(g, lr, cpu)
       /\ ~(get_lr_physid(g, lr, cpu) < NSGI \/ get_lr_physid(g, lr, cpu) > NIRQ)
       /\ get_lr_physid(g, lr, cpu) \in Irqs
    THEN set_irq_active(g, get_lr_physid(g, lr, cpu), FALSE, {cpu})
    ELSE g

\* gic400::vcpuif::write_eoir
vcpuif_write_eoir(g, cpu, val, ub) ==
    LET c == u8(cpu)
        irq == val % 512
        apr == g.vifctrl_apr[c] \ {ctz(g.vifctrl_apr[c])}
        g1 == [g EXCEPT !.vifctrl_apr[c] = apr,
                        !.vcpuif_rpr[c] = IF apr # {}
                                          THEN fls(apr) * Pow2(VIRT_MIN_BPR + 1)
                                          ELSE IDLE_PRIO]
    IN  IF irq >= m_irq_num THEN Done(g)
        ELSE IF c \notin Cpus
        THEN IF ub = "abort" THEN Aborted(g1) ELSE Done(update_virt(g1))
        ELSE LET lr == get_lr(g1, irq, c)
             IN  Done(update_virt(eoir_deactivate_hw(set_lr_active(g1, lr, c, FALSE),
                                                     lr, c)))

(***************************************************************************)
(* The state machine                                                       *)
(***************************************************************************)
\* The state after construction, reset and end_of_elaboration
ResetState ==
    [enabled |-> [irq \in Irqs |-> IF irq < NSGI THEN ALL_CPU ELSE {}],
     pending |-> [irq \in Irqs |-> {}],
     active |-> [irq \in Irqs |-> {}],
     level |-> [irq \in Irqs |-> {}],
     signaled |-> [irq \in Irqs |-> {}],
     model |-> [irq \in Irqs |-> "N_N"],
     trigger |-> [irq \in Irqs |-> "EDGE"],
     distif_ctlr |-> 0,
     ipriority_sgi |-> [cpu \in Cpus |-> [irq \in SgiIds |-> 0]],
     ipriority_ppi |-> [cpu \in Cpus |-> [idx \in PpiIdx |-> 0]],
     ipriority_spi |-> [idx \in SpiIdx |-> 0],
     itargets_spi |-> [idx \in SpiIdx |-> {}],
     spendsgir |-> [cpu \in ALL_CPU |-> [irq \in SgiIds |-> {}]],
     cpendsgir |-> [cpu \in ALL_CPU |-> [irq \in SgiIds |-> {}]],
     cpuif_ctlr |-> [cpu \in Cpus |-> 0],
     pmr |-> [cpu \in Cpus |-> 0],
     rpr |-> [cpu \in Cpus |-> IDLE_PRIO],
     hppir |-> [cpu \in Cpus |-> SPURIOUS_IRQ],
     iar |-> [cpu \in Cpus |-> 0],
     m_curr_irq |-> [cpu \in Cpus |-> SPURIOUS_IRQ],
     m_prev_irq |-> [irq \in Irqs |-> [cpu \in Cpus |-> SPURIOUS_IRQ]],
     irq_out |-> [cpu \in Cpus |-> FALSE],
     m_lr_state |-> [cpu \in Cpus |-> [lr \in 0 .. (NLR - 1) |-> list_entry]],
     vifctrl_hcr |-> [bank \in VBanks |-> 0],
     vifctrl_lr |-> [bank \in VBanks |-> [lr \in 0 .. (NLR - 1) |-> U32(0, 0)]],
     vifctrl_apr |-> [bank \in VBanks |-> {}],
     vcpuif_ctlr |-> [bank \in VBanks |-> 0],
     vcpuif_pmr |-> [bank \in VBanks |-> 0],
     vcpuif_bpr |-> [bank \in VBanks |-> 2],
     vcpuif_rpr |-> [bank \in VBanks |-> IDLE_PRIO],
     vcpuif_hppir |-> [bank \in VBanks |-> SPURIOUS_IRQ],
     virq_out |-> [cpu \in Cpus |-> FALSE]]

\* The driver's initialisation, as the sequence of register writes it makes
\* after reset: both CPU interfaces enabled with an open priority mask, SGI 0
\* at priority 128 and SGI 1 at priority 32 on both CPUs, SPI 32 at priority
\* 64 routed to both CPUs and enabled, the distributor enabled last.
Booted ==
    LET g1 == cpuif_write_ctlr(cpuif_write_ctlr(ResetState, 0, 1), 1, 1)
        g2 == write_pmr(write_pmr(g1, 0, 255), 1, 255)
        g3 == write_ipriority_sgi(write_ipriority_sgi(g2, 0, 0, 128), 1, 0, 128)
        g4 == write_ipriority_sgi(write_ipriority_sgi(g3, 0, 1, 32), 1, 1, 32)
        g5 == write_ipriority_spi(g4, 0, 64)
        g6 == write_itargets_spi(g5, 0, 3)
        g7 == write_isenabler_spi(g6, 1, 0)
    IN  distif_write_ctlr(g7, 1)

\* Values the modelled driver writes to the registers
SgirVals == {sgi + t * 65536 : sgi \in SgiIds, t \in {1, 2}}
SgirSelfVals == {sgi + 65536 : sgi \in SgiIds}
IcactiverPpiVals == {Pow2(irq) : irq \in SgiIds}
SpendsgirVals == {0, 3}
ItargetsVals == {1, 3}

StateIs(g) ==
    /\ enabled = g.enabled
    /\ pending = g.pending
    /\ active = g.active
    /\ level = g.level
    /\ signaled = g.signaled
    /\ model = g.model
    /\ trigger = g.trigger
    /\ distif_ctlr = g.distif_ctlr
    /\ ipriority_sgi = g.ipriority_sgi
    /\ ipriority_ppi = g.ipriority_ppi
    /\ ipriority_spi = g.ipriority_spi
    /\ itargets_spi = g.itargets_spi
    /\ spendsgir = g.spendsgir
    /\ cpendsgir = g.cpendsgir
    /\ cpuif_ctlr = g.cpuif_ctlr
    /\ pmr = g.pmr
    /\ rpr = g.rpr
    /\ hppir = g.hppir
    /\ iar = g.iar
    /\ m_curr_irq = g.m_curr_irq
    /\ m_prev_irq = g.m_prev_irq
    /\ irq_out = g.irq_out
    /\ m_lr_state = g.m_lr_state
    /\ vifctrl_hcr = g.vifctrl_hcr
    /\ vifctrl_lr = g.vifctrl_lr
    /\ vifctrl_apr = g.vifctrl_apr
    /\ vcpuif_ctlr = g.vcpuif_ctlr
    /\ vcpuif_pmr = g.vcpuif_pmr
    /\ vcpuif_bpr = g.vcpuif_bpr
    /\ vcpuif_rpr = g.vcpuif_rpr
    /\ vcpuif_hppir = g.vcpuif_hppir
    /\ virq_out = g.virq_out

Commit(g) ==
    /\ enabled' = g.enabled
    /\ pending' = g.pending
    /\ active' = g.active
    /\ level' = g.level
    /\ signaled' = g.signaled
    /\ model' = g.model
    /\ trigger' = g.trigger
    /\ distif_ctlr' = g.distif_ctlr
    /\ ipriority_sgi' = g.ipriority_sgi
    /\ ipriority_ppi' = g.ipriority_ppi
    /\ ipriority_spi' = g.ipriority_spi
    /\ itargets_spi' = g.itargets_spi
    /\ spendsgir' = g.spendsgir
    /\ cpendsgir' = g.cpendsgir
    /\ cpuif_ctlr' = g.cpuif_ctlr
    /\ pmr' = g.pmr
    /\ rpr' = g.rpr
    /\ hppir' = g.hppir
    /\ iar' = g.iar
    /\ m_curr_irq' = g.m_curr_irq
    /\ m_prev_irq' = g.m_prev_irq
    /\ irq_out' = g.irq_out
    /\ m_lr_state' = g.m_lr_state
    /\ vifctrl_hcr' = g.vifctrl_hcr
    /\ vifctrl_lr' = g.vifctrl_lr
    /\ vifctrl_apr' = g.vifctrl_apr
    /\ vcpuif_ctlr' = g.vcpuif_ctlr
    /\ vcpuif_pmr' = g.vcpuif_pmr
    /\ vcpuif_bpr' = g.vcpuif_bpr
    /\ vcpuif_rpr' = g.vcpuif_rpr
    /\ vcpuif_hppir' = g.vcpuif_hppir
    /\ virq_out' = g.virq_out
    /\ UNCHANGED virtvars

\* a handler may run: the simulation has not stopped and the bound allows it
Ready == fault = "none" /\ budget > 0

\* a handler that returns nothing and cannot fail; last records the handler,
\* the CPU that made the access and the interrupt it named
Handler(op, cpu, arg, g) ==
    /\ Ready
    /\ Commit(g)
    /\ fault' = "none"
    /\ last' = [op |-> op, cpu |-> cpu, arg |-> arg]
    /\ ret' = 0
    /\ budget' = budget - 1

InitWith(g, n) ==
    /\ StateIs(g)
    /\ msg = <<>> /\ svq = <<>> /\ pvq = <<>> /\ inp = <<>>
    /\ fault = "none"
    /\ last = [op |-> "boot", cpu |-> 0, arg |-> 0]
    /\ ret = 0
    /\ budget = n

DistWriteCtlr ==
    \E val \in {0, 1} : Handler("distif_write_ctlr", 0, 0, distif_write_ctlr(G, val))

CpuWriteCtlr ==
    \E cpu \in Cpus, val \in {0, 1} :
        Handler("cpuif_write_ctlr", cpu, 0, cpuif_write_ctlr(G, cpu, val))

WritePmr ==
    \E cpu \in Cpus, val \in PmrVals : Handler("write_pmr", cpu, 0, write_pmr(G, cpu, val))

WriteIprioritySgi(cpus, irqs) ==
    \E cpu \in cpus, irq \in irqs, val \in PrioVals :
        Handler("write_ipriority", cpu, irq, write_ipriority_sgi(G, cpu, irq, val))

WriteIprioritySpi(idxs) ==
    \E idx \in idxs, val \in PrioVals :
        Handler("write_ipriority", 0, NPRIV + idx, write_ipriority_spi(G, idx, val))

WriteItargetsSpi(idxs) ==
    \E idx \in idxs, val \in ItargetsVals :
        Handler("write_itargets", 0, NPRIV + idx, write_itargets_spi(G, idx, val))

WriteIcactiverPpi ==
    \E cpu \in Cpus, val \in IcactiverPpiVals :
        Handler("write_icactiver_ppi", cpu, ctz(BitsOf(val, 31)),
                write_icactiver_ppi(G, cpu, val))

WriteSgir(cpus, values) ==
    \E cpu \in cpus, value \in values :
        Handler("write_sgir", cpu, value, write_sgir(G, cpu, value))

WriteSpendsgir(cpus, irqs) ==
    \E cpu \in cpus, value \in SpendsgirVals, idx \in irqs :
        Handler("write_spendsgir", cpu, idx, write_spendsgir(G, cpu, value, idx))

HandleSpi(idxs) ==
    \E idx \in idxs, state \in BOOLEAN :
        Handler("handle_spi", 0, NPRIV + idx, handle_spi(G, idx, state))

ReadIar(cpus) ==
    \E cpu \in cpus :
        LET r == read_iar(G, cpu)
        IN  /\ Ready
            /\ Commit(r.g)
            /\ fault' = r.fault
            /\ last' = [op |-> "read_iar", cpu |-> cpu, arg |-> hppir[cpu]]
            /\ ret' = r.ret
            /\ budget' = budget - 1

WriteEoir(cpus, vals) ==
    \E cpu \in cpus, val \in vals :
        LET r == write_eoir(G, cpu, val)
        IN  /\ Ready
            /\ Commit(r.g)
            /\ fault' = r.fault
            /\ last' = [op |-> "write_eoir", cpu |-> cpu, arg |-> val]
            /\ ret' = 0
            /\ budget' = budget - 1

(***************************************************************************)
(* Spec: the acknowledge / end-of-interrupt protocol on both CPUs, with    *)
(* SGIs sent by either CPU to either CPU and the SPI line toggling.        *)
(***************************************************************************)
Init == InitWith(Booted, MaxSteps)

Next ==
    \/ WriteSgir(Cpus, SgirVals)
    \/ HandleSpi(BootSpiIdx)
    \/ ReadIar(Cpus)
    \/ WriteEoir(Cpus, BootIrqs)

Spec == Init /\ [][Next]_vars

(***************************************************************************)
(* SpecArb: the protocol together with the configuration writes a driver   *)
(* may make at any time.                                                   *)
(***************************************************************************)
InitArb == InitWith(Booted, MaxArbSteps)

NextArb ==
    \/ DistWriteCtlr
    \/ CpuWriteCtlr
    \/ WritePmr
    \/ WriteIprioritySgi(Cpus, SgiIds)
    \/ WriteIprioritySpi(BootSpiIdx)
    \/ WriteItargetsSpi(BootSpiIdx)
    \/ WriteIcactiverPpi
    \/ WriteSgir(Cpus, SgirVals)
    \/ HandleSpi(BootSpiIdx)
    \/ ReadIar(Cpus)
    \/ WriteEoir(Cpus, BootIrqs)

SpecArb == InitArb /\ [][NextArb]_vars

(***************************************************************************)
(* SpecDeep: CPU 0 alone takes nested SGIs while their priorities are      *)
(* reprogrammed; long behaviours over few inputs.                          *)
(***************************************************************************)
InitDeep == InitWith(Booted, MaxDeepSteps)

NextDeep ==
    \/ WriteSgir({0}, SgirSelfVals)
    \/ WriteSpendsgir({0}, {0})
    \/ WriteIprioritySgi({0}, {0})
    \/ ReadIar({0})
    \/ WriteEoir({0}, SgiIds)

SpecDeep == InitDeep /\ [][NextDeep]_vars

(***************************************************************************)
(* SpecLevel: SPI 32 is configured level-sensitive at boot; its input      *)
(* toggles while both CPUs take it and SGIs, and EOIR is also written with *)
(* an interrupt id that is not implemented.                                *)
(***************************************************************************)
BootedLevel == write_icfgr_spi(Booted, 0, 0)

\* ICFGR values for the first interrupt of a register: bit 1 clear is
\* level-sensitive, set is edge
IcfgrSpiVals == {0, 2}

\* EOIR values: the boot interrupts and an id beyond m_irq_num
EoirVals == BootIrqs \cup {1022}

WriteIcfgrSpi(idxs) ==
    \E value \in IcfgrSpiVals, idx \in idxs :
        Handler("write_icfgr_spi", 0, NPRIV + idx * 16, write_icfgr_spi(G, value, idx))

InitLevel == InitWith(BootedLevel, MaxLevelSteps)

NextLevel ==
    \/ WriteIcfgrSpi({0})
    \/ HandleSpi(BootSpiIdx)
    \/ WriteSgir(Cpus, SgirSelfVals)
    \/ ReadIar(Cpus)
    \/ WriteEoir(Cpus, EoirVals)

SpecLevel == InitLevel /\ [][NextLevel]_vars

(***************************************************************************)
(* SpecCfg: the distributor's enable, pending, configuration and target    *)
(* registers are written for PPI 16, SPI 32 and SPI 64 while the inputs    *)
(* toggle.                                                                 *)
(***************************************************************************)
\* ISENABLER0 / ICENABLER0 values: bit 16 alone, and with the bits of SGI 0
\* and SGI 1
EnablerPpiVals == {65536, 65539}

\* the ICFGR register index and the ISENABLER/ICENABLER/ISPENDR register
\* index whose bit 0 is the SPI
IcfgrIdxOf(irq) == (irq - NPRIV) \div 16
BankIdxOf(irq) == (irq - NPRIV) \div 32

WriteIsenablerPpi ==
    \E cpu \in Cpus, val \in EnablerPpiVals :
        Handler("write_isenabler_ppi", cpu, val, write_isenabler_ppi(G, cpu, val))

WriteIcenablerPpi ==
    \E cpu \in Cpus, val \in EnablerPpiVals :
        Handler("write_icenabler_ppi", cpu, val, write_icenabler_ppi(G, cpu, val))

\* the SPI registers are written with bit 0 set; arg is the SPI of that bit
WriteIsenablerSpi ==
    \E irq \in SpiIds :
        Handler("write_isenabler_spi", 0, irq, write_isenabler_spi(G, 1, BankIdxOf(irq)))

WriteIcenablerSpi ==
    \E irq \in SpiIds :
        Handler("write_icenabler_spi", 0, irq, write_icenabler_spi(G, 1, BankIdxOf(irq)))

WriteSspr ==
    \E irq \in SpiIds :
        Handler("write_sspr", 0, irq, write_sspr(G, 1, BankIdxOf(irq)))

WriteIcfgr ==
    \E value \in IcfgrSpiVals :
        Handler("write_icfgr", 0, NSGI, write_icfgr(G, value))

HandlePpi ==
    \E cpu \in Cpus, idx \in PpiIdx, state \in BOOLEAN :
        Handler("handle_ppi", cpu, NSGI + idx, handle_ppi(G, cpu, idx, state))

InitCfg == InitWith(Booted, MaxCfgSteps)

NextCfg ==
    \/ WriteIsenablerPpi
    \/ WriteIcenablerPpi
    \/ WriteIsenablerSpi
    \/ WriteIcenablerSpi
    \/ WriteSspr
    \/ WriteIcfgr
    \/ WriteIcfgrSpi({IcfgrIdxOf(irq) : irq \in SpiIds})
    \/ HandlePpi
    \/ HandleSpi(SpiIdx)
    \/ WriteItargetsSpi(SpiIdx)

SpecCfg == InitCfg /\ [][NextCfg]_vars

(***************************************************************************)
(* SpecSgi: SGIs are generated with every target filter and taken.         *)
(***************************************************************************)
\* SGIR values: target list {CPU 0}, all but self, self only (with a target
\* list that names CPU 1), and the reserved filter 3 with list {CPU 0}
SgirFilterVals ==
    {sgi + f : sgi \in SgiIds, f \in {65536, 16777216, 33554432 + 131072, 50331648 + 65536}}

InitSgi == InitWith(Booted, MaxSgiSteps)

NextSgi ==
    \/ WriteSgir(Cpus, SgirFilterVals)
    \/ ReadIar(Cpus)
    \/ WriteEoir(Cpus, SgiIds)

SpecSgi == InitSgi /\ [][NextSgi]_vars

(***************************************************************************)
(* SpecVirt: a hypervisor on both CPUs programs the virtual interface      *)
(* control registers; the list registers are written over each other.      *)
(***************************************************************************)
\* a list-register value as the hypervisor composes it: hw (bit 31), state
\* (bits 29..28), priority (bits 27..23), physical id or source CPU (from
\* bit 10) and virtual id (from bit 0)
LrVal(hw, state, prio, src, vid) ==
    U32(hw * 32768 + state * 4096 + prio * 128 + (src \div 64),
        (src % 64) * 1024 + vid)

\* the values written: SPI 32 forwarded as virtual interrupt 1 and as virtual
\* interrupt 100, software interrupts 2 (from CPU 1) and 3 pending, virtual
\* interrupt 1 active, virtual interrupt 2 pending and active, an empty entry
LrVals == {LrVal(1, 1, 5, 32, 1), LrVal(1, 1, 5, 32, 100), LrVal(0, 1, 10, 1, 2),
           LrVal(0, 1, 5, 0, 3), LrVal(0, 2, 10, 0, 1), LrVal(0, 3, 4, 0, 2),
           LrVal(0, 0, 0, 0, 0)}
LrIdx == {0, 1}
HcrVals == {0, 1}
VmcrVals == {0, 134217728, 2013265920}
AprVals == {0, 1024, 1028}
VEoirVals == {1, 2, 100}
UbOutcomes == {"abort", "zero", "one"}

\* the outcomes of an access by cpu to the list-register state table: it is
\* defined, and ub is not consulted, when cpu has a row
UbFor(cpu) == IF u8(cpu) \in Cpus THEN {"zero"} ELSE UbOutcomes

\* a handler of the virtual interface; last records the handler, the value
\* current_cpu() returned and the arguments
VHandler(op, cpu, arg, r) ==
    /\ Ready
    /\ Commit(r.g)
    /\ fault' = r.fault
    /\ last' = [op |-> op, cpu |-> cpu, arg |-> arg]
    /\ ret' = r.ret
    /\ budget' = budget - 1

WriteHcr(cpus) ==
    \E cpu \in cpus, val \in HcrVals :
        VHandler("write_hcr", cpu, val, write_hcr(G, cpu, val))

WriteVmcr(cpus) ==
    \E cpu \in cpus, val \in VmcrVals :
        VHandler("write_vmcr", cpu, val, write_vmcr(G, cpu, val))

WriteApr(cpus) ==
    \E cpu \in cpus, val \in AprVals :
        VHandler("write_apr", cpu, val, write_apr(G, cpu, val))

WriteLr(cpus, vals) ==
    \E cpu \in cpus :
        \E val \in vals, idx \in LrIdx, ub \in UbFor(cpu) :
            VHandler("write_lr", cpu, [val |-> val, idx |-> idx], write_lr(G, cpu, val, idx, ub))

ReadLr(cpus) ==
    \E cpu \in cpus :
        \E idx \in LrIdx, ub \in UbFor(cpu) :
            VHandler("read_lr", cpu, idx, read_lr(G, cpu, idx, ub))

VcpuReadIar(cpus) ==
    \E cpu \in cpus :
        \E ub \in UbFor(cpu) :
            VHandler("vcpuif_read_iar", cpu, vcpuif_hppir[u8(cpu)], vcpuif_read_iar(G, cpu, ub))

VcpuWriteEoir(cpus, vals) ==
    \E cpu \in cpus :
        \E val \in vals, ub \in UbFor(cpu) :
            VHandler("vcpuif_write_eoir", cpu, val, vcpuif_write_eoir(G, cpu, val, ub))

\* the hypervisor's initialisation after boot: the virtual interface of both
\* CPUs enabled, the virtual priority mask open
BootedVirt ==
    LET g1 == write_hcr(write_hcr(Booted, 0, 1).g, 1, 1).g
    IN  write_vmcr(write_vmcr(g1, 0, 2013265920).g, 1, 2013265920).g

InitVirt == InitWith(BootedVirt, MaxVirtSteps)

NextVirt ==
    \/ WriteHcr(Cpus)
    \/ WriteVmcr(Cpus)
    \/ WriteApr(Cpus)
    \/ WriteLr(Cpus, LrVals)
    \/ ReadLr(Cpus)

SpecVirt == InitVirt /\ [][NextVirt]_vars

(***************************************************************************)
(* SpecVack: SPI 32 is asserted and acknowledged by CPU 0 (the hypervisor) *)
(* which forwards it, and other interrupts, to the guest through the list  *)
(* registers; the guests acknowledge and end virtual interrupts.           *)
(***************************************************************************)
BootedVack == read_iar(handle_spi(BootedVirt, 0, TRUE), 0).g

VackLrVals == {LrVal(1, 1, 5, 32, 1), LrVal(1, 1, 5, 32, 100),
               LrVal(0, 1, 10, 1, 2), LrVal(0, 2, 10, 0, 1),
               LrVal(0, 1, 4, 2, 3)}

InitVack == InitWith(BootedVack, MaxVackSteps)

NextVack ==
    \/ WriteLr(Cpus, VackLrVals)
    \/ VcpuReadIar(Cpus)
    \/ VcpuWriteEoir(Cpus, VEoirVals)

SpecVack == InitVack /\ [][NextVack]_vars

(***************************************************************************)
(* SpecApr: the virtual binary point of both CPUs is at its minimum, a     *)
(* virtual interrupt of priority level 10 runs on CPU 0, and the           *)
(* hypervisor loads further virtual interrupts of levels 10, 5 and 4 which *)
(* the guests acknowledge and end.                                         *)
(***************************************************************************)
AprLrVals == {LrVal(0, 1, 10, 0, 2), LrVal(0, 1, 5, 0, 1), LrVal(0, 1, 4, 0, 3)}

\* VMCR with the priority mask open and the binary point at VIRT_MIN_BPR
VmcrMinBpr == 2013265920 + VIRT_MIN_BPR * 2097152

BootedApr ==
    LET g1 == write_vmcr(write_vmcr(BootedVirt, 0, VmcrMinBpr).g, 1, VmcrMinBpr).g
        g2 == write_lr(g1, 0, LrVal(0, 1, 10, 0, 2), 0, "zero").g
    IN  vcpuif_read_iar(g2, 0, "zero").g

InitApr == InitWith(BootedApr, MaxAprSteps)

NextApr ==
    \/ WriteLr(Cpus, AprLrVals)
    \/ VcpuReadIar(Cpus)
    \/ VcpuWriteEoir(Cpus, VEoirVals)

SpecApr == InitApr /\ [][NextApr]_vars

(***************************************************************************)
(* SpecInvalid: register accesses that no CPU made (current_cpu() = -1),   *)
(* next to the same accesses by CPU 0.                                     *)
(***************************************************************************)
\* the substitution the distributor and the CPU interface make
cpu_or_0(cpu) == IF cpu < 0 THEN 0 ELSE cpu

Initiators == {-1, 0}

WriteSgirFrom(cpus) ==
    \E cpu \in cpus, value \in SgirSelfVals :
        Handler("write_sgir", cpu, value, write_sgir(G, cpu_or_0(cpu), value))

ReadIarFrom(cpus) ==
    \E cpu \in cpus :
        LET r == read_iar(G, cpu_or_0(cpu))
        IN  /\ Ready
            /\ Commit(r.g)
            /\ fault' = r.fault
            /\ last' = [op |-> "read_iar", cpu |-> cpu, arg |-> hppir[cpu_or_0(cpu)]]
            /\ ret' = r.ret
            /\ budget' = budget - 1

WriteEoirFrom(cpus) ==
    \E cpu \in cpus, val \in SgiIds :
        LET r == write_eoir(G, cpu_or_0(cpu), val)
        IN  /\ Ready
            /\ Commit(r.g)
            /\ fault' = r.fault
            /\ last' = [op |-> "write_eoir", cpu |-> cpu, arg |-> val]
            /\ ret' = 0
            /\ budget' = budget - 1

InvalidLrVals == {LrVal(0, 1, 10, 1, 2), LrVal(0, 2, 10, 0, 1)}

InitInvalid == InitWith(BootedVirt, MaxInvalidSteps)

NextInvalid ==
    \/ WriteSgirFrom(Initiators)
    \/ ReadIarFrom(Initiators)
    \/ WriteEoirFrom(Initiators)
    \/ WriteHcr(Initiators)
    \/ WriteVmcr(Initiators)
    \/ WriteLr(Initiators, InvalidLrVals)
    \/ VcpuReadIar(Initiators)
    \/ VcpuWriteEoir(Initiators, {1, 2})

SpecInvalid == InitInvalid /\ [][NextInvalid]_vars

(***************************************************************************)
(* Properties.  The arbitration is restated here from the state alone,     *)
(* without the scan loops of update.                                       *)
(***************************************************************************)
\* the handlers whose last statement is update(), so that the state they
\* leave is the state update() left
PostUpdateOps == {"boot", "distif_write_ctlr", "write_sgir", "handle_spi"}
PostUpdate == last.op \in PostUpdateOps

\* the distributor and the CPU interface of cpu are enabled
Forwarding(cpu) == distif_ctlr # 0 /\ cpuif_ctlr[cpu] # 0

PrioOf(cpu, irq) ==
    IF irq \in SgiIds THEN ipriority_sgi[cpu][irq]
    ELSE IF irq \in PpiIds THEN ipriority_ppi[cpu][irq - NSGI]
    ELSE ipriority_spi[irq - NPRIV]

\* enabled, pending, not active and, for an SPI, targeted at cpu
Candidates(cpu) ==
    {irq \in Irqs :
        /\ cpu \in enabled[irq]
        /\ (cpu \in pending[irq] \/ (trigger[irq] = "LEVEL" /\ cpu \in level[irq]))
        /\ cpu \notin active[irq]
        /\ (irq \in SpiIds => cpu \in itargets_spi[irq - NPRIV])}

\* lowest priority value first, smallest id among equals
Winner(cpu) ==
    CHOOSE irq \in Candidates(cpu) :
        \A o \in Candidates(cpu) :
            \/ PrioOf(cpu, irq) < PrioOf(cpu, o)
            \/ (PrioOf(cpu, irq) = PrioOf(cpu, o) /\ irq <= o)

BestPrio(cpu) ==
    IF Candidates(cpu) = {} THEN IDLE_PRIO ELSE PrioOf(cpu, Winner(cpu))

\* C1 as stated: after update(), for every CPU whose distributor and CPU
\* interface are enabled, HPPIR is the candidate with the lowest priority
\* value (smallest id among equals) and is SPURIOUS only when there is no
\* candidate.
C1_HppirIsWinner ==
    PostUpdate =>
        \A cpu \in Cpus :
            Forwarding(cpu) =>
                hppir[cpu] = IF Candidates(cpu) = {} THEN SPURIOUS_IRQ
                             ELSE Winner(cpu)

\* C1 amended: after update(), for every enabled CPU, HPPIR is the candidate
\* with the lowest priority value (smallest id among equals) provided that
\* priority is strictly lower than PMR; it is SPURIOUS when there is no
\* candidate or the best candidate does not pass the priority mask.
C1_HppirIsUnmaskedWinner ==
    PostUpdate =>
        \A cpu \in Cpus :
            Forwarding(cpu) =>
                hppir[cpu] = IF BestPrio(cpu) < pmr[cpu] THEN Winner(cpu)
                             ELSE SPURIOUS_IRQ

\* C1 witness: update() has run and a CPU had two candidates of equal, best
\* priority; the smaller id is reported
C1_Witness ==
    /\ PostUpdate
    /\ \E cpu \in Cpus :
          /\ Forwarding(cpu)
          /\ \E a, b \in Candidates(cpu) :
                /\ a < b
                /\ PrioOf(cpu, a) = BestPrio(cpu)
                /\ PrioOf(cpu, b) = BestPrio(cpu)
                /\ hppir[cpu] = a

\* C2: after update(), the IRQ output of a CPU is asserted if and only if the
\* best candidate priority is strictly lower than PMR and strictly lower than
\* RPR; a CPU whose distributor or CPU interface is disabled is deasserted.
C2_IrqOut ==
    PostUpdate =>
        \A cpu \in Cpus :
            irq_out[cpu] <=> (/\ Forwarding(cpu)
                              /\ BestPrio(cpu) < pmr[cpu]
                              /\ BestPrio(cpu) < rpr[cpu])

\* C2 witness: update() has run, a candidate passes the priority mask but
\* not the running priority, and the output is deasserted
C2_Witness ==
    /\ PostUpdate
    /\ \E cpu \in Cpus :
          /\ Forwarding(cpu)
          /\ Candidates(cpu) # {}
          /\ BestPrio(cpu) < pmr[cpu]
          /\ BestPrio(cpu) >= rpr[cpu]
          /\ ~irq_out[cpu]

\* the step just taken was an IAR read by cpu that returned
IarBy(cpu) == last'.op = "read_iar" /\ last'.cpu = cpu /\ fault' = "none"

\* the step just taken was an EOIR write by cpu that returned
EoirBy(cpu) == last'.op = "write_eoir" /\ last'.cpu = cpu /\ fault' = "none"

\* the mask read_iar clears and sets on
ClearingMask(cpu, irq) == IF model[irq] = "N_1" THEN ALL_CPU ELSE {cpu}

\* C3: an IAR read that does not return SPURIOUS acknowledges irq =
\* HPPIR[cpu]: prev_irq[irq][cpu] holds the former curr_irq[cpu], curr_irq[cpu]
\* is irq, irq is active and signaled on the clearing mask and, unless it is
\* an SGI, no longer pending on that mask.
C3_Acknowledge ==
    [][\A cpu \in Cpus :
          (IarBy(cpu) /\ ret' # SPURIOUS_IRQ) =>
              LET irq == hppir[cpu]
                  mask == ClearingMask(cpu, irq)
              IN  /\ irq \in Irqs
                  /\ ret' % 1024 = irq
                  /\ m_prev_irq'[irq][cpu] = m_curr_irq[cpu]
                  /\ m_curr_irq'[cpu] = irq
                  /\ mask \subseteq active'[irq]
                  /\ mask \subseteq signaled'[irq]
                  /\ (~is_software_interrupt(irq) => pending'[irq] \cap mask = {})]_vars

\* C3 witness: SPI 32 was acknowledged while an SGI was running and the SGI
\* was pushed below it
C3_Witness ==
    /\ last.op = "read_iar"
    /\ fault = "none"
    /\ ret = 32
    /\ m_curr_irq[last.cpu] = 32
    /\ m_prev_irq[32][last.cpu] \in SgiIds
    /\ last.cpu \in active[32]
    /\ last.cpu \notin pending[32]

\* C4: an IAR read returns SPURIOUS whenever HPPIR[cpu] is SPURIOUS or the
\* priority of the HPPIR interrupt is not strictly lower than RPR[cpu], and
\* then pending, active, signaled, the SGI source masks, curr_irq, prev_irq
\* and RPR are unchanged.
C4_SpuriousRead ==
    [][\A cpu \in Cpus :
          (/\ IarBy(cpu)
           /\ \/ hppir[cpu] = SPURIOUS_IRQ
              \/ PrioOf(cpu, hppir[cpu]) >= rpr[cpu]) =>
              /\ ret' = SPURIOUS_IRQ
              /\ UNCHANGED <<pending, active, signaled, spendsgir, cpendsgir,
                             m_curr_irq, m_prev_irq, rpr>>]_vars

\* C4 witness: an IAR read returned SPURIOUS although HPPIR named an
\* interrupt, because the running priority was not lower
C4_Witness ==
    /\ last.op = "read_iar"
    /\ fault = "none"
    /\ ret = SPURIOUS_IRQ
    /\ last.arg \in Irqs
    /\ PrioOf(last.cpu, last.arg) >= rpr[last.cpu]
    /\ m_curr_irq[last.cpu] # SPURIOUS_IRQ

\* the lowest bit set in a non-empty CPU mask
LowestOf(S) == CHOOSE b \in S : \A o \in S : b <= o

\* C5: an IAR read acknowledging an SGI removes exactly the lowest-numbered
\* source from spendsgir[cpu][sgi], returns that source in bits 10-12 with
\* the SGI id in the low bits, and clears the pending bit of the target only
\* when no source remains.
C5_SgiSourcePop ==
    [][\A cpu \in Cpus :
          (IarBy(cpu) /\ ret' # SPURIOUS_IRQ /\ hppir[cpu] \in SgiIds) =>
              LET sgi == hppir[cpu]
                  S == spendsgir[cpu][sgi]
              IN  /\ S # {}
                  /\ cpu \in pending[sgi]
                  /\ spendsgir'[cpu][sgi] = S \ {LowestOf(S)}
                  /\ \A c \in ALL_CPU, i \in SgiIds :
                        <<c, i>> # <<cpu, sgi>> => spendsgir'[c][i] = spendsgir[c][i]
                  /\ ret' = LowestOf(S) * 1024 + sgi
                  /\ (cpu \in pending'[sgi]) <=> (S \ {LowestOf(S)} # {})]_vars

\* C5 witness: an SGI sent by CPU 0 and CPU 1 was acknowledged once; source 0
\* was reported, source 1 remains and the SGI is still pending
C5_Witness ==
    /\ last.op = "read_iar"
    /\ fault = "none"
    /\ last.arg \in SgiIds
    /\ ret = last.arg
    /\ spendsgir[last.cpu][last.arg] = {1}
    /\ last.cpu \in pending[last.arg]
    /\ last.cpu \in active[last.arg]

\* HPPIR and the IRQ output of every CPU are what update computes from the
\* present state
Arbitrated ==
    \A cpu \in Cpus : <<hppir[cpu], irq_out[cpu]>> = update_cpu(G, cpu)

\* C6: an EOIR write naming the running interrupt pops the preemption stack:
\* curr_irq[cpu] is the former prev_irq[irq][cpu], RPR[cpu] is the priority of
\* the restored interrupt (IDLE_PRIO if it is SPURIOUS), the completed
\* interrupt is not active for the CPU, and HPPIR and the IRQ outputs are
\* those of an update on the resulting state.
C6_EoirPop ==
    [][\A cpu \in Cpus, irq \in Irqs, restored \in IrqOrNone :
          (/\ EoirBy(cpu)
           /\ last'.arg = irq
           /\ irq = m_curr_irq[cpu]
           /\ restored = m_prev_irq[irq][cpu]) =>
              /\ m_curr_irq'[cpu] = restored
              /\ rpr'[cpu] = IF restored = SPURIOUS_IRQ THEN IDLE_PRIO
                             ELSE PrioOf(cpu, restored)'
              /\ cpu \notin active'[irq]
              /\ Arbitrated']_vars

\* C6 witness: SGI 1 had preempted SGI 0 and its EOIR restored SGI 0 as the
\* running interrupt with its priority in RPR
C6_Witness ==
    /\ last.op = "write_eoir"
    /\ fault = "none"
    /\ last.arg = 1
    /\ last.cpu \in signaled[1]
    /\ last.cpu \notin active[1]
    /\ m_curr_irq[last.cpu] = 0
    /\ last.cpu \in active[0]
    /\ rpr[last.cpu] = PrioOf(last.cpu, 0)

\* the preemption chain of cpu from curr_irq through prev_irq links, cut
\* after n interrupts
RECURSIVE ChainFrom(_, _, _)
ChainFrom(cpu, irq, n) ==
    IF irq = SPURIOUS_IRQ \/ n = 0 THEN <<>>
    ELSE <<irq>> \o ChainFrom(cpu, m_prev_irq[irq][cpu], n - 1)

\* every interrupt reachable from curr_irq[cpu] is among the first
\* Cardinality(Irqs) links, cyclic chain or not
Chain(cpu) == ChainFrom(cpu, m_curr_irq[cpu], Cardinality(Irqs))

InChain(cpu, irq) == \E n \in 1 .. Len(Chain(cpu)) : Chain(cpu)[n] = irq

\* seq without the entries equal to x
RECURSIVE Without(_, _)
Without(seq, x) ==
    IF seq = <<>> THEN <<>>
    ELSE IF Head(seq) = x THEN Without(Tail(seq), x)
    ELSE <<Head(seq)>> \o Without(Tail(seq), x)

\* C7: an EOIR write naming an interrupt of the CPU's preemption chain that
\* is not the running one leaves curr_irq[cpu] and RPR[cpu] unchanged, makes
\* the named interrupt unreachable from curr_irq[cpu], and keeps every other
\* interrupt of the chain in its previous relative order.
C7_EoirUnlink ==
    [][\A cpu \in Cpus, irq \in Irqs :
          (/\ EoirBy(cpu)
           /\ last'.arg = irq
           /\ irq # m_curr_irq[cpu]
           /\ InChain(cpu, irq)) =>
              /\ m_curr_irq'[cpu] = m_curr_irq[cpu]
              /\ rpr'[cpu] = rpr[cpu]
              /\ ~InChain(cpu, irq)'
              /\ Chain(cpu)' = Without(Chain(cpu), irq)]_vars

\* C8: for every CPU, RPR[cpu] <= IDLE_PRIO and RPR[cpu] is the current
\* priority of curr_irq[cpu], IDLE_PRIO when curr_irq[cpu] is SPURIOUS.
C8_RprIsRunningPriority ==
    \A cpu \in Cpus :
        /\ rpr[cpu] <= IDLE_PRIO
        /\ rpr[cpu] = IF m_curr_irq[cpu] = SPURIOUS_IRQ THEN IDLE_PRIO
                      ELSE PrioOf(cpu, m_curr_irq[cpu])

\* C9: an interrupt whose active bit is set for some CPU is in the
\* preemption chain of some CPU.
C9_ActiveInChain ==
    \A irq \in Irqs :
        active[irq] # {} => \E cpu \in Cpus : InChain(cpu, irq)

\* C10: after every operation HPPIR and the IRQ output of every CPU are what
\* the update arbitration computes from the state the operation left.
C10_NoStaleArbitration == Arbitrated

\* C11: an EOIR write that names an acknowledged, enabled, level-triggered
\* interrupt whose input is still asserted (priority below PMR) makes it a
\* candidate of the update that follows; when no other candidate beats it,
\* HPPIR reports it and the IRQ output is asserted.
C11_LevelReasserts ==
    [][\A cpu \in Cpus, irq \in Irqs :
          (/\ EoirBy(cpu)
           /\ last'.arg = irq
           /\ cpu \in active[irq]
           /\ trigger[irq] = "LEVEL"
           /\ cpu \in level[irq]
           /\ cpu \in enabled[irq]
           /\ (irq \in SpiIds => cpu \in itargets_spi[irq - NPRIV])
           /\ Forwarding(cpu)
           /\ PrioOf(cpu, irq) < pmr[cpu]) =>
              /\ irq \in Candidates(cpu)'
              /\ (Winner(cpu)' = irq => hppir'[cpu] = irq /\ irq_out'[cpu])]_vars

\* C12: every SGI is enabled for every CPU in every state, whatever is
\* written to ISENABLER and ICENABLER.
C12_SgiAlwaysEnabled ==
    \A sgi \in SgiIds : enabled[sgi] = ALL_CPU

\* C12 witness: ICENABLER0 was written with the bits of SGI 0 and SGI 1 set
\* and PPI 16 was disabled by it, the SGIs were not
C12_Witness ==
    /\ last.op = "write_icenabler_ppi"
    /\ TestBit(last.arg, 0)
    /\ TestBit(last.arg, 1)
    /\ last.cpu \notin enabled[16]
    /\ \A sgi \in SgiIds : enabled[sgi] = ALL_CPU

\* the irq_state fields an enable write must leave alone
EnableFrame == UNCHANGED <<active, level, signaled, model, trigger>>

\* C13: an ISENABLER write that sets the enable bit of a level-triggered
\* interrupt whose input is asserted makes it pending (PPI: for the writing
\* CPU; SPI: for the CPUs whose level is asserted); for an edge-triggered
\* interrupt or a low input only the enabled bit changes.
C13_EnableSetsPending ==
    [][/\ \A cpu \in Cpus :
            (last'.op = "write_isenabler_ppi" /\ last'.cpu = cpu) =>
                /\ EnableFrame
                /\ \A irq \in Irqs :
                      IF irq \in PpiIds /\ TestBit(last'.arg, irq)
                      THEN /\ enabled'[irq] = enabled[irq] \cup {cpu}
                           /\ pending'[irq] =
                                 IF trigger[irq] = "LEVEL" /\ cpu \in level[irq]
                                 THEN pending[irq] \cup {cpu}
                                 ELSE pending[irq]
                      ELSE enabled'[irq] = enabled[irq] /\ pending'[irq] = pending[irq]
       /\ (last'.op = "write_isenabler_spi") =>
                /\ EnableFrame
                /\ \A irq \in Irqs :
                      IF irq = last'.arg
                      THEN /\ enabled'[irq] = ALL_CPU
                           /\ pending'[irq] =
                                 IF trigger[irq] = "LEVEL"
                                 THEN pending[irq] \cup level[irq]
                                 ELSE pending[irq]
                      ELSE enabled'[irq] = enabled[irq] /\ pending'[irq] = pending[irq]]_vars

\* C13 witness: level-sensitive SPI 64 had its input asserted while it was
\* disabled, and the ISENABLER write made it pending
C13_Witness ==
    /\ last.op = "write_isenabler_spi"
    /\ last.arg = 64
    /\ trigger[64] = "LEVEL"
    /\ level[64] # {}
    /\ enabled[64] = ALL_CPU
    /\ pending[64] = level[64]

SgirTargetSet(cpu, value) ==
    LET filter == (value \div 16777216) % 4
    IN  IF filter = 0 THEN BitsOf((value \div 65536) % 256, 8)
        ELSE IF filter = 1 THEN ALL_CPU \ {cpu}
        ELSE {cpu}

\* C15: an SGIR write by CPU c with SGI n and filter 0, 1 or 2 makes SGI n
\* pending for every CPU t of the selected target set and adds c to
\* spendsgir[t][n]; for every other CPU, and every other SGI, pending and
\* spendsgir are unchanged.
C15_SgirTargets ==
    [][\A cpu \in Cpus, value \in SgirFilterVals :
          (/\ last'.op = "write_sgir"
           /\ last'.cpu = cpu
           /\ last'.arg = value
           /\ (value \div 16777216) % 4 # 3) =>
              LET n == value % 16
                  T == SgirTargetSet(cpu, value)
              IN  /\ pending'[n] = pending[n] \cup T
                  /\ \A t \in ALL_CPU :
                        spendsgir'[t][n] = IF t \in T THEN spendsgir[t][n] \cup {cpu}
                                           ELSE spendsgir[t][n]
                  /\ \A m \in SgiIds \ {n} :
                        /\ pending'[m] = pending[m]
                        /\ \A t \in ALL_CPU : spendsgir'[t][m] = spendsgir[t][m]]_vars

\* C15 witness: CPU 1 wrote SGIR with filter 1 (all but self); SGI 0 is
\* pending for CPU 0 and CPUs 2..7 from source 1, and not for CPU 1
C15_Witness ==
    /\ last.op = "write_sgir"
    /\ last.cpu = 1
    /\ last.arg = 16777216
    /\ pending[0] = ALL_CPU \ {1}
    /\ \A t \in ALL_CPU \ {1} : 1 \in spendsgir[t][0]
    /\ spendsgir[1][0] = {}

\* C16: an EOIR write by a CPU that has no running interrupt, or naming an
\* interrupt id that is not below the number of implemented interrupts,
\* changes nothing.
C16_EoirIgnored ==
    [][\A cpu \in Cpus :
          (/\ EoirBy(cpu)
           /\ \/ m_curr_irq[cpu] = SPURIOUS_IRQ
              \/ last'.arg % 1024 >= m_irq_num) =>
              UNCHANGED gicvars]_vars

\* C16 witness: EOIR was written with an id beyond the implemented
\* interrupts while an interrupt was running, and it is still running
C16_Witness ==
    /\ last.op = "write_eoir"
    /\ last.arg % 1024 >= m_irq_num
    /\ m_curr_irq[last.cpu] # SPURIOUS_IRQ
    /\ last.cpu \in active[m_curr_irq[last.cpu]]

\* C17: a banked handler (distributor, CPU interface, virtual interface
\* control, virtual CPU interface) reached by an access that no CPU made
\* leaves the state, and returns the value, that the same access by CPU 0
\* leaves and returns.
C17_InvalidCpuIsCpu0 ==
    [][(last'.cpu = -1) =>
          /\ fault' = "none"
          /\ (last'.op = "write_sgir") =>
                \A value \in SgirSelfVals :
                    last'.arg = value => GNext = write_sgir(G, 0, value)
          /\ (last'.op = "read_iar") =>
                GNext = read_iar(G, 0).g /\ ret' = read_iar(G, 0).ret
          /\ (last'.op = "write_eoir") =>
                \A val \in SgiIds :
                    last'.arg = val => GNext = write_eoir(G, 0, val).g
          /\ (last'.op = "write_hcr") =>
                \A val \in HcrVals :
                    last'.arg = val => GNext = write_hcr(G, 0, val).g
          /\ (last'.op = "write_vmcr") =>
                \A val \in VmcrVals :
                    last'.arg = val => GNext = write_vmcr(G, 0, val).g
          /\ (last'.op = "write_lr") =>
                \A val \in InvalidLrVals, idx \in LrIdx :
                    last'.arg = [val |-> val, idx |-> idx] =>
                        GNext = write_lr(G, 0, val, idx, "zero").g
          /\ (last'.op = "vcpuif_read_iar") =>
                /\ GNext = vcpuif_read_iar(G, 0, "zero").g
                /\ ret' = vcpuif_read_iar(G, 0, "zero").ret
          /\ (last'.op = "vcpuif_write_eoir") =>
                \A val \in {1, 2} :
                    last'.arg = val => GNext = vcpuif_write_eoir(G, 0, val, "zero").g]_vars

\* a list-register write by a CPU, of value val to register idx
LrWriteBy(cpu, val, idx) ==
    /\ last'.op = "write_lr"
    /\ last'.cpu = cpu
    /\ last'.arg = [val |-> val, idx |-> idx]

\* C18: after a write of v to a list register its decoded state is that of
\* v, whatever it held before: pending is bit 28, active bit 29, hw bit 31,
\* the priority bits 27..23, the virtual id the low id field, and bits 10 up
\* the source CPU (hw = 0) or the physical id (hw = 1).
C18_LrDecodesWrittenValue ==
    [][\A cpu \in Cpus, val \in LrVals, idx \in LrIdx :
          LrWriteBy(cpu, val, idx) =>
              /\ m_lr_state'[cpu][idx].pending = (Field32(val, 28, 1) = 1)
              /\ m_lr_state'[cpu][idx].active = (Field32(val, 29, 1) = 1)
              /\ m_lr_state'[cpu][idx].hw = (Field32(val, 31, 1) = 1)
              /\ m_lr_state'[cpu][idx].prio = Field32(val, 23, 31)
              /\ m_lr_state'[cpu][idx].virtual_id = Field32(val, 0, 511)
              /\ (Field32(val, 31, 1) = 0 =>
                     m_lr_state'[cpu][idx].cpu_id = Field32(val, 10, 7))
              /\ (Field32(val, 31, 1) = 1 =>
                     m_lr_state'[cpu][idx].physical_id = Field32(val, 10, 511))]_vars

\* the state was left by update(true): by write_hcr or write_lr
VPostUpdate == last.op \in {"write_hcr", "write_lr"} /\ fault = "none"

\* the pending list registers of a CPU, the lowest priority among them, and
\* the first list register that has it
PendingLrs(cpu) == {i \in 0 .. (NLR - 1) : m_lr_state[cpu][i].pending}
BestLrPrio(cpu) ==
    CHOOSE p \in {m_lr_state[cpu][i].prio : i \in PendingLrs(cpu)} :
        \A i \in PendingLrs(cpu) : p <= m_lr_state[cpu][i].prio
BestLr(cpu) ==
    CHOOSE i \in PendingLrs(cpu) :
        /\ m_lr_state[cpu][i].prio = BestLrPrio(cpu)
        /\ \A j \in PendingLrs(cpu) :
              m_lr_state[cpu][j].prio = BestLrPrio(cpu) => i <= j

\* C19 as stated: after update(true), on a CPU whose HCR is not zero, the
\* virtual HPPIR is the virtual id of a pending list register of the lowest
\* priority, and SPURIOUS only when no list register is pending.
C19_VHppirIsLowestPending ==
    VPostUpdate =>
        \A cpu \in Cpus :
            vifctrl_hcr[cpu] # 0 =>
                IF PendingLrs(cpu) = {}
                THEN vcpuif_hppir[cpu] = SPURIOUS_IRQ
                ELSE \E i \in PendingLrs(cpu) :
                        /\ m_lr_state[cpu][i].prio = BestLrPrio(cpu)
                        /\ vcpuif_hppir[cpu] = m_lr_state[cpu][i].virtual_id

\* C19 amended: after update(true), on a CPU whose HCR is not zero, the
\* virtual HPPIR is the virtual id of the pending list register of the lowest
\* priority (the first of them when several share it) provided that priority
\* is below the virtual PMR; it is SPURIOUS when no list register is pending
\* or the lowest priority is not below the virtual PMR.
C19_VHppirIsUnmaskedLowest ==
    VPostUpdate =>
        \A cpu \in Cpus :
            vifctrl_hcr[cpu] # 0 =>
                vcpuif_hppir[cpu] =
                    IF PendingLrs(cpu) # {} /\ BestLrPrio(cpu) < vcpuif_pmr[cpu]
                    THEN m_lr_state[cpu][BestLr(cpu)].virtual_id
                    ELSE SPURIOUS_IRQ

\* C19 witness: a list-register write left two pending list registers of
\* different priorities, and the virtual HPPIR names the one of the lower
C19_Witness ==
    /\ last.op = "write_lr"
    /\ last.cpu \in Cpus
    /\ vifctrl_hcr[last.cpu] # 0
    /\ PendingLrs(last.cpu) = {0, 1}
    /\ m_lr_state[last.cpu][1].prio < m_lr_state[last.cpu][0].prio
    /\ vcpuif_hppir[last.cpu] = m_lr_state[last.cpu][1].virtual_id
    /\ vcpuif_hppir[last.cpu] # m_lr_state[last.cpu][0].virtual_id

\* the physical interrupts C20 speaks of
ForwardedIds == {p \in Irqs : NSGI <= p /\ p < m_irq_num}

\* C20: a list register of a CPU that holds a pending interrupt with the hw
\* bit, physical id p and virtual id v is active and not pending after the
\* virtual IAR read that returns v; once acknowledged, it is inactive after
\* the virtual EOIR write of v, and p is not active for that CPU.
C20_HwForwarding ==
    [][\A cpu \in Cpus, idx \in 0 .. (NLR - 1), p \in ForwardedIds :
          /\ (/\ last'.op = "vcpuif_read_iar"
              /\ last'.cpu = cpu
              /\ m_lr_state[cpu][idx].hw
              /\ m_lr_state[cpu][idx].pending
              /\ m_lr_state[cpu][idx].physical_id = p
              /\ ret' % 1024 = m_lr_state[cpu][idx].virtual_id) =>
                 /\ m_lr_state'[cpu][idx].active
                 /\ ~m_lr_state'[cpu][idx].pending
          /\ (/\ last'.op = "vcpuif_write_eoir"
              /\ last'.cpu = cpu
              /\ m_lr_state[cpu][idx].hw
              /\ m_lr_state[cpu][idx].active
              /\ ~m_lr_state[cpu][idx].pending
              /\ m_lr_state[cpu][idx].physical_id = p
              /\ last'.arg % 512 = m_lr_state[cpu][idx].virtual_id) =>
                 /\ ~m_lr_state'[cpu][idx].active
                 /\ cpu \notin active'[p]]_vars

\* a virtual IAR read, a virtual EOIR write by a CPU
VIarBy(cpu) == last'.op = "vcpuif_read_iar" /\ last'.cpu = cpu
VEoirBy(cpu) == last'.op = "vcpuif_write_eoir" /\ last'.cpu = cpu

\* the list registers of a CPU that a step took from pending to active
Acknowledged(cpu) ==
    {i \in 0 .. (NLR - 1) : /\ m_lr_state[cpu][i].pending
                            /\ ~m_lr_state'[cpu][i].pending
                            /\ m_lr_state'[cpu][i].active}

\* the priority, on the 8-bit scale of PMR and RPR, of the highest-priority
\* level set in an active-priority bitmap; IDLE_PRIO when none is set
AprPriority(apr) ==
    IF apr = {} THEN IDLE_PRIO ELSE ctz(apr) * Pow2(VIRT_MIN_BPR + 1)

\* C21: with the virtual binary point at its minimum, a virtual IAR read
\* that acknowledges sets the APR bit of the acknowledged priority level, a
\* virtual EOIR write that is not ignored clears exactly the bit of the
\* highest-priority level set, and after either the virtual RPR is the
\* priority of the highest-priority level still set in APR, IDLE_PRIO when
\* APR is zero.
C21_AprTracksRpr ==
    [][\A cpu \in Cpus :
          (vcpuif_bpr[cpu] = VIRT_MIN_BPR) =>
              /\ (VIarBy(cpu) /\ ret' # SPURIOUS_IRQ) =>
                    /\ \A i \in Acknowledged(cpu) :
                          vifctrl_apr'[cpu] = vifctrl_apr[cpu] \cup {m_lr_state[cpu][i].prio}
                    /\ vcpuif_rpr'[cpu] = AprPriority(vifctrl_apr[cpu])'
              /\ (VEoirBy(cpu) /\ last'.arg % 512 < m_irq_num) =>
                    /\ vifctrl_apr'[cpu] = vifctrl_apr[cpu] \ {ctz(vifctrl_apr[cpu])}
                    /\ vcpuif_rpr'[cpu] = AprPriority(vifctrl_apr[cpu])']_vars

\* C29: a virtual IAR read acknowledges a pending list register only if its
\* priority, on the scale of the virtual PMR and RPR, is strictly below both;
\* otherwise it returns SPURIOUS and changes no list register.
C29_OneScale ==
    [][\A cpu \in Cpus :
          VIarBy(cpu) =>
              /\ \A i \in Acknowledged(cpu) :
                    /\ m_lr_state[cpu][i].prio * 8 < vcpuif_pmr[cpu]
                    /\ m_lr_state[cpu][i].prio * 8 < vcpuif_rpr[cpu]
              /\ (ret' = SPURIOUS_IRQ => m_lr_state' = m_lr_state)]_vars

\* C30: a virtual IAR read that acknowledges a list register without the hw
\* bit returns the register's CPU-source id in bits 10-12 and its virtual id
\* in the bits below.
C30_IarReturnsSource ==
    [][\A cpu \in Cpus :
          VIarBy(cpu) =>
              \A i \in Acknowledged(cpu) :
                  ~m_lr_state[cpu][i].hw =>
                      ret' = m_lr_state[cpu][i].cpu_id * 1024
                             + m_lr_state[cpu][i].virtual_id]_vars

(***************************************************************************)
(* VirtIO                                                                  *)
(***************************************************************************)
\* enum virtio_status
VIRTIO_INCOMPLETE == 0
VIRTIO_OK == 1
VIRTIO_ERR_INDIRECT == -1
VIRTIO_ERR_NODMI == -2
VIRTIO_ERR_CHAIN == -3
VIRTIO_ERR_DESC == -4

virtio_status == {VIRTIO_INCOMPLETE, VIRTIO_OK, VIRTIO_ERR_INDIRECT,
                  VIRTIO_ERR_NODMI, VIRTIO_ERR_CHAIN, VIRTIO_ERR_DESC}

\* a VirtIO step: the interrupt controller is a different device
VirtStep(op, arg, r, f) ==
    /\ Ready
    /\ UNCHANGED gicvars
    /\ fault' = f
    /\ last' = [op |-> op, cpu |-> 0, arg |-> arg]
    /\ ret' = r
    /\ budget' = budget - 1

InitVirtio(n) ==
    /\ StateIs(ResetState)
    /\ fault = "none"
    /\ last = [op |-> "boot", cpu |-> 0, arg |-> 0]
    /\ ret = 0
    /\ budget = n

\* struct vq_message, as a queue hands it to do_get: no buffers yet
vq_message(index) ==
    [in |-> <<>>, out |-> <<>>, length_in |-> 0, length_out |-> 0,
     index |-> index, status |-> VIRTIO_INCOMPLETE]

vq_buffer(addr, size) == [addr |-> addr, size |-> size]

\* the claimed direction: write buffers recorded as in-buffers
append_write_is_in(m, addr, sz, iswr) ==
    IF iswr
    THEN [m EXCEPT !.in = Append(@, vq_buffer(addr, sz)), !.length_in = @ + sz]
    ELSE [m EXCEPT !.out = Append(@, vq_buffer(addr, sz)), !.length_out = @ + sz]

append(m, addr, sz, iswr) ==
    IF iswr
    THEN [m EXCEPT !.out = Append(@, vq_buffer(addr, sz)), !.length_out = @ + sz]
    ELSE [m EXCEPT !.in = Append(@, vq_buffer(addr, sz)), !.length_in = @ + sz]

(***************************************************************************)
(* SpecMsg: buffers of either direction are appended to one message.       *)
(***************************************************************************)
MsgAddrs == {4096, 8192}
MsgSizes == {0, 16, 32}

MsgAppend ==
    \E addr \in MsgAddrs, sz \in MsgSizes, iswr \in BOOLEAN :
        /\ msg' = append(msg, addr, sz, iswr)
        /\ UNCHANGED <<svq, pvq, inp>>
        /\ VirtStep("append", [addr |-> addr, size |-> sz, iswr |-> iswr], 0, "none")

InitMsg == InitVirtio(MaxMsgSteps) /\ msg = vq_message(0)
           /\ svq = <<>> /\ pvq = <<>> /\ inp = <<>>

NextMsg == MsgAppend

SpecMsg == InitMsg /\ [][NextMsg]_vars

\* the step appended buffer b to list new (from old) and added its size to
\* counter lnew (from lold)
Appended(old, new, lold, lnew, b) ==
    new = Append(old, b) /\ lnew = lold + b.size

F_NEXT == 1
F_WRITE == 2
F_INDIRECT == 4

\* flags & F
HasFlag(flags, f) == (flags \div f) % 2 = 1

is_chained(d) == HasFlag(d.flags, F_NEXT)
is_write(d) == HasFlag(d.flags, F_WRITE)
is_indirect(d) == HasFlag(d.flags, F_INDIRECT)

\* a cursor that is not reduced to 16 bits
u16_unbounded(x) == x

\* u16 m_last_avail_idx, u16 idx: arithmetic modulo 65536
u16(x) == x % 65536

\* the negotiated size of the modelled split queue
SplitSize == 2

split_vq_desc(addr, len, flags, next) ==
    [addr |-> addr, len |-> len, flags |-> flags, next |-> next]

\* the descriptors the driver may have put into the table: chained to each
\* index (one past the table included), device-writable, indirect, and one
\* that points to memory the device cannot reach
SplitDescs ==
    {split_vq_desc(4096, 16, F_NEXT, 0), split_vq_desc(4096, 16, F_NEXT, 1),
     split_vq_desc(4096, 16, F_NEXT, 2), split_vq_desc(8192, 32, F_NEXT + F_WRITE, 1),
     split_vq_desc(8192, 32, F_WRITE, 0), split_vq_desc(4096, 16, 0, 0),
     split_vq_desc(4096, 16, F_INDIRECT, 0), split_vq_desc(0, 16, 0, 0)}

\* the DMI callback: a host pointer for mapped guest memory, null otherwise
DmiMapped == {4096, 8192}
lookup_desc_ptr(d) == d.addr \in DmiMapped

SplitHeads == 0 .. SplitSize
SplitInitialIdx == {0, 65535}

\* the queue after construction and validate(), over a table the driver filled
split_virtqueue(table, idx) ==
    [size |-> SplitSize, desc |-> table, ring |-> [i \in 0 .. (SplitSize - 1) |-> 0],
     avail_idx |-> idx, last_avail_idx |-> idx,
     pc |-> "idle", head |-> 0, cur |-> 0, count |-> 0,
     status |-> VIRTIO_INCOMPLETE, initial |-> idx, n_ok |-> 0]

\* a step of do_get that is not a handler entry: bounded by the code alone
SplitInner(op, arg, r) ==
    /\ fault = "none"
    /\ UNCHANGED <<gicvars, pvq, inp, budget>>
    /\ fault' = "none"
    /\ last' = [op |-> op, cpu |-> 0, arg |-> arg]
    /\ ret' = r

\* do_get returns sts
split_return(q, sts) == [q EXCEPT !.pc = "idle", !.status = sts]

\* the driver makes a chain available: avail.ring[idx % size] = head, idx++
SplitDriverPublish ==
    \E head \in SplitHeads :
        /\ svq.pc = "idle"
        /\ svq' = [svq EXCEPT !.ring[svq.avail_idx % svq.size] = head,
                              !.avail_idx = u16(@ + 1)]
        /\ UNCHANGED <<msg, pvq, inp>>
        /\ VirtStep("publish", head, 0, "none")

\* split_virtqueue::do_get, up to the first descriptor
SplitGet ==
    /\ svq.pc = "idle"
    /\ UNCHANGED <<pvq, inp>>
    /\ IF svq.avail_idx = svq.last_avail_idx
       THEN /\ svq' = split_return(svq, VIRTIO_INCOMPLETE)
            /\ UNCHANGED msg
            /\ VirtStep("do_get", 0, VIRTIO_INCOMPLETE, "none")
       ELSE LET head == svq.ring[svq.last_avail_idx % svq.size]
            IN  IF head >= svq.size
                THEN /\ svq' = split_return(svq, VIRTIO_ERR_DESC)
                     /\ UNCHANGED msg
                     /\ VirtStep("do_get", head, VIRTIO_ERR_DESC, "none")
                ELSE /\ svq' = [svq EXCEPT !.pc = "walk", !.head = head,
                                           !.cur = head, !.count = 0]
                     /\ msg' = vq_message(0)
                     /\ VirtStep("walk", head, 0, "none")

\* the chain limit that lets one descriptor too many through
chain_too_long_off_by_one(q, count) == count > q.size

\* the chain would exceed the queue size with the next descriptor
chain_too_long(q, count) == count >= q.size

\* split_virtqueue::do_get, one descriptor of the chain
SplitWalk ==
    /\ svq.pc = "walk"
    /\ LET d == svq.desc[svq.cur]
           count == svq.count + 1
       IN  IF is_indirect(d)
           THEN /\ svq' = split_return(svq, VIRTIO_ERR_INDIRECT)
                /\ UNCHANGED msg
                /\ SplitInner("do_get", svq.head, VIRTIO_ERR_INDIRECT)
           ELSE IF ~lookup_desc_ptr(d)
           THEN /\ svq' = split_return(svq, VIRTIO_ERR_NODMI)
                /\ UNCHANGED msg
                /\ SplitInner("do_get", svq.head, VIRTIO_ERR_NODMI)
           ELSE IF ~is_chained(d)
           THEN /\ msg' = [append(msg, d.addr, d.len, is_write(d))
                               EXCEPT !.index = svq.head, !.status = VIRTIO_OK]
                /\ svq' = [split_return(svq, VIRTIO_OK)
                               EXCEPT !.count = count,
                                      !.last_avail_idx = u16(@ + 1),
                                      !.n_ok = @ + 1]
                /\ SplitInner("do_get", svq.head, VIRTIO_OK)
           ELSE IF chain_too_long(svq, count)
           THEN /\ msg' = append(msg, d.addr, d.len, is_write(d))
                /\ svq' = [split_return(svq, VIRTIO_ERR_CHAIN) EXCEPT !.count = count]
                /\ SplitInner("do_get", svq.head, VIRTIO_ERR_CHAIN)
           ELSE IF d.next >= svq.size
           THEN /\ msg' = append(msg, d.addr, d.len, is_write(d))
                /\ svq' = [split_return(svq, VIRTIO_ERR_DESC) EXCEPT !.count = count]
                /\ SplitInner("do_get", svq.head, VIRTIO_ERR_DESC)
           ELSE /\ msg' = append(msg, d.addr, d.len, is_write(d))
                /\ svq' = [svq EXCEPT !.count = count, !.cur = d.next]
                /\ SplitInner("walk", svq.head, 0)

(***************************************************************************)
(* SpecSplit: a split queue of SplitSize descriptors over every table of   *)
(* SplitDescs; the driver publishes heads, the device gets messages.       *)
(* SpecSplitFair: the same, and a do_get that has started runs on.         *)
(***************************************************************************)
InitSplit ==
    /\ InitVirtio(MaxSplitSteps)
    /\ \E table \in [0 .. (SplitSize - 1) -> SplitDescs], idx \in SplitInitialIdx :
           svq = split_virtqueue(table, idx)
    /\ msg = vq_message(0) /\ pvq = <<>> /\ inp = <<>>

NextSplit ==
    \/ SplitDriverPublish
    \/ SplitGet
    \/ SplitWalk

SpecSplit == InitSplit /\ [][NextSplit]_vars

SpecSplitFair == SpecSplit /\ WF_vars(SplitWalk)

\* do_get returned in this step
SplitGetReturns == last'.op = "do_get"

\* C23: after any sequence of do_get calls of which k returned OK the cursor
\* is (initial + k) mod 65536, and a do_get that finds avail.idx equal to
\* the cursor returns INCOMPLETE and does not move it.
C23_CursorCountsOk ==
    [][/\ svq'.last_avail_idx = (svq'.initial + svq'.n_ok) % 65536
       /\ (SplitGetReturns /\ svq.pc = "idle" /\ svq.avail_idx = svq.last_avail_idx) =>
              /\ ret' = VIRTIO_INCOMPLETE
              /\ svq'.last_avail_idx = svq.last_avail_idx
       /\ (SplitGetReturns /\ ret' = VIRTIO_OK) => svq'.n_ok = svq.n_ok + 1
       /\ ~(SplitGetReturns /\ ret' = VIRTIO_OK) => svq'.n_ok = svq.n_ok]_vars

\* the cursor has wrapped from 65535 to 0 with one successful do_get, and a
\* later do_get found nothing new
C23_Witness ==
    /\ svq.initial = 65535 /\ svq.n_ok = 1 /\ svq.last_avail_idx = 0
    /\ last.op = "do_get" /\ ret = VIRTIO_INCOMPLETE

\* C24: do_get terminates whatever the table holds: a started walk returns,
\* it never follows more than size descriptors, it returns ERR_CHAIN exactly
\* when the chain goes on after size descriptors and ERR_DESC when a next
\* index (or the head) is outside the table.
C24_WalkTerminates ==
    /\ [](svq.count <= svq.size)
    /\ (svq.pc = "walk") ~> (svq.pc = "idle")
    /\ [][SplitGetReturns =>
             /\ ret' \in virtio_status
             /\ (ret' = VIRTIO_ERR_CHAIN) <=>
                    /\ svq.pc = "walk"
                    /\ svq'.count = svq.size
                    /\ is_chained(svq.desc[svq.cur])
                    /\ ~is_indirect(svq.desc[svq.cur])
                    /\ lookup_desc_ptr(svq.desc[svq.cur])
             /\ (ret' = VIRTIO_ERR_DESC) <=>
                    \/ svq.pc = "idle" /\ svq.avail_idx # svq.last_avail_idx
                    \/ /\ svq.pc = "walk"
                       /\ svq'.count < svq.size
                       /\ is_chained(svq.desc[svq.cur])
                       /\ svq.desc[svq.cur].next >= svq.size
                       /\ ~is_indirect(svq.desc[svq.cur])
                       /\ lookup_desc_ptr(svq.desc[svq.cur])]_vars

\* a cyclic chain was cut after size descriptors
C24_Witness ==
    /\ last.op = "do_get" /\ ret = VIRTIO_ERR_CHAIN
    /\ svq.count = svq.size
    /\ svq.desc[0].next = 1 /\ svq.desc[1].next = 0

(***************************************************************************)
(* Packed virtqueue                                                        *)
(***************************************************************************)
F_PACKED_AVAIL == 128
F_PACKED_USED == 32768

\* vq_event::event_flags
F_EVENT_ENABLE == 0
F_EVENT_DISABLE == 1
F_EVENT_DESC == 2

packed_vq_desc(addr, len, id, flags) ==
    [addr |-> addr, len |-> len, id |-> id, flags |-> flags]

is_avail(d, wrap_counter) ==
    IF HasFlag(d.flags, F_PACKED_AVAIL) THEN wrap_counter ELSE ~wrap_counter

is_used(d, wrap_counter) ==
    IF HasFlag(d.flags, F_PACKED_USED) THEN wrap_counter ELSE ~wrap_counter

mark_used(d, wrap_counter) ==
    LET cleared == IF HasFlag(d.flags, F_PACKED_USED)
                   THEN d.flags - F_PACKED_USED ELSE d.flags
    IN  [d EXCEPT !.flags = IF wrap_counter THEN cleared + F_PACKED_USED ELSE cleared]

vq_event(off_wrap, flags) == [off_wrap |-> off_wrap, flags |-> flags]

\* vq_event::should_notify: the decision, or the error report of the
\* default branch
should_notify(ev, index) ==
    IF ev.flags = F_EVENT_ENABLE THEN [fault |-> "none", ret |-> TRUE]
    ELSE IF ev.flags = F_EVENT_DISABLE THEN [fault |-> "none", ret |-> FALSE]
    ELSE IF ev.flags = F_EVENT_DESC THEN [fault |-> "none", ret |-> index = ev.off_wrap]
    ELSE [fault |-> "VCML_ERROR", ret |-> FALSE]

\* the sizes of the modelled packed queues
PackedSizes == {1, 2, 3}

\* descriptor flags the driver writes: available in the first lap (alone,
\* chained, indirect), available in the second lap, not available
PackedFlagVals == {F_PACKED_AVAIL, F_PACKED_AVAIL + F_NEXT,
                   F_PACKED_AVAIL + F_INDIRECT, F_PACKED_USED, 0}

\* what the driver writes to its event structure: the three defined flag
\* values and two that are not defined
PackedEvents == {vq_event(0, F_EVENT_ENABLE), vq_event(0, F_EVENT_DISABLE),
                 vq_event(0, F_EVENT_DESC), vq_event(1, F_EVENT_DESC),
                 vq_event(0, 3), vq_event(0, 65535)}

packed_virtqueue(size) ==
    [size |-> size,
     desc |-> [i \in 0 .. (size - 1) |-> packed_vq_desc(4096, 16, i, 0)],
     driver |-> vq_event(0, F_EVENT_ENABLE),
     last_avail_idx |-> 0, wrap_get |-> TRUE,
     last_put_idx |-> 0, wrap_put |-> TRUE,
     notify |-> FALSE,
     pc |-> "idle", head |-> 0, count |-> 0, status |-> VIRTIO_INCOMPLETE,
     n_ok |-> 0, n_adv |-> 0]

\* a cursor that flips the wrap counter one step early
packed_advance_early_flip(q) ==
    [q EXCEPT !.last_avail_idx = (@ + 1) % q.size,
              !.wrap_get = IF q.last_avail_idx + 2 >= q.size THEN ~@ ELSE @,
              !.n_adv = @ + 1]

\* the get cursor moves on by one descriptor and wraps at the end of the ring
packed_advance(q) ==
    [q EXCEPT !.last_avail_idx = IF @ + 1 >= q.size THEN 0 ELSE @ + 1,
              !.wrap_get = IF q.last_avail_idx + 1 >= q.size THEN ~@ ELSE @,
              !.n_adv = @ + 1]

packed_return(q, sts) == [q EXCEPT !.pc = "idle", !.status = sts]

PackedInner(op, arg, r) ==
    /\ fault = "none"
    /\ UNCHANGED <<gicvars, svq, inp, budget>>
    /\ fault' = "none"
    /\ last' = [op |-> op, cpu |-> 0, arg |-> arg]
    /\ ret' = r

\* the driver writes the flags of a descriptor
PackedDriverWrite ==
    \E i \in 0 .. (pvq.size - 1), flags \in PackedFlagVals :
        /\ pvq.pc = "idle"
        /\ pvq' = [pvq EXCEPT !.desc[i].flags = flags]
        /\ UNCHANGED <<msg, svq, inp>>
        /\ VirtStep("driver_write", i, 0, "none")

\* the driver writes its event suppression structure
PackedDriverEvent ==
    \E ev \in PackedEvents :
        /\ pvq.pc = "idle"
        /\ pvq' = [pvq EXCEPT !.driver = ev]
        /\ UNCHANGED <<msg, svq, inp>>
        /\ VirtStep("driver_event", ev.flags, 0, "none")

\* packed_virtqueue::do_get, up to the head descriptor
PackedGet ==
    /\ pvq.pc = "idle"
    /\ UNCHANGED <<svq, inp>>
    /\ LET d == pvq.desc[pvq.last_avail_idx]
       IN  IF ~is_avail(d, pvq.wrap_get) \/ is_used(d, pvq.wrap_get)
           THEN /\ pvq' = packed_return(pvq, VIRTIO_INCOMPLETE)
                /\ UNCHANGED msg
                /\ VirtStep("packed_do_get", 0, VIRTIO_INCOMPLETE, "none")
           ELSE /\ pvq' = [pvq EXCEPT !.pc = "walk", !.head = pvq.last_avail_idx,
                                      !.count = 0]
                /\ msg' = vq_message(0)
                /\ VirtStep("packed_walk", pvq.last_avail_idx, 0, "none")

\* packed_virtqueue::do_get, one descriptor of the chain
PackedWalk ==
    /\ pvq.pc = "walk"
    /\ LET d == pvq.desc[pvq.last_avail_idx]
           q == [packed_advance(pvq) EXCEPT !.count = @ + 1]
       IN  IF is_indirect(d)
           THEN /\ pvq' = packed_return(pvq, VIRTIO_ERR_INDIRECT)
                /\ UNCHANGED msg
                /\ PackedInner("packed_do_get", pvq.head, VIRTIO_ERR_INDIRECT)
           ELSE IF ~lookup_desc_ptr(d)
           THEN /\ pvq' = packed_return(pvq, VIRTIO_ERR_NODMI)
                /\ UNCHANGED msg
                /\ PackedInner("packed_do_get", pvq.head, VIRTIO_ERR_NODMI)
           ELSE IF ~is_chained(d)
           THEN /\ msg' = [append(msg, d.addr, d.len, is_write(d))
                               EXCEPT !.index = pvq.head, !.status = VIRTIO_OK]
                /\ pvq' = [packed_return(q, VIRTIO_OK) EXCEPT !.n_ok = @ + 1]
                /\ PackedInner("packed_do_get", pvq.head, VIRTIO_OK)
           ELSE IF chain_too_long(pvq, q.count)
           THEN /\ msg' = append(msg, d.addr, d.len, is_write(d))
                /\ pvq' = packed_return(q, VIRTIO_ERR_CHAIN)
                /\ PackedInner("packed_do_get", pvq.head, VIRTIO_ERR_CHAIN)
           ELSE /\ msg' = append(msg, d.addr, d.len, is_write(d))
                /\ pvq' = q
                /\ PackedInner("packed_walk", pvq.head, 0)

\* packed_virtqueue::do_put of the message last got
PackedPut ==
    /\ pvq.pc = "idle"
    /\ msg.status = VIRTIO_OK
    /\ LET i == pvq.last_put_idx
           next == IF i + 1 >= pvq.size THEN 0 ELSE i + 1
           r == should_notify(pvq.driver, next)
       IN  /\ pvq' = [pvq EXCEPT !.desc[i] = mark_used(@, pvq.wrap_put),
                                 !.last_put_idx = next,
                                 !.wrap_put = IF i + 1 >= pvq.size THEN ~@ ELSE @,
                                 !.notify = r.ret,
                                 !.status = VIRTIO_OK]
           /\ msg' = [msg EXCEPT !.status = VIRTIO_INCOMPLETE]
           /\ UNCHANGED <<svq, inp>>
           /\ VirtStep("packed_do_put", i, VIRTIO_OK, r.fault)

(***************************************************************************)
(* SpecPacked: packed queues of 1, 2 and 3 descriptors; the driver writes  *)
(* descriptor flags and its event structure, the device gets and puts.     *)
(***************************************************************************)
InitPacked ==
    /\ InitVirtio(MaxPackedSteps)
    /\ \E size \in PackedSizes : pvq = packed_virtqueue(size)
    /\ msg = vq_message(0) /\ svq = <<>> /\ inp = <<>>

NextPacked ==
    \/ PackedDriverWrite
    \/ PackedDriverEvent
    \/ PackedGet
    \/ PackedWalk
    \/ PackedPut

SpecPacked == InitPacked /\ [][NextPacked]_vars

\* C25: in a packed queue of any size wrap_get is toggled exactly at the
\* steps that take last_avail_idx from size - 1 back to 0; in a queue of
\* size 2, after two single-descriptor messages, last_avail_idx is 0 and
\* wrap_get has flipped once.
C25_WrapGetTogglesAtWrap ==
    [][/\ (pvq'.wrap_get # pvq.wrap_get) <=>
              (pvq'.n_adv # pvq.n_adv /\ pvq.last_avail_idx = pvq.size - 1)
       /\ (pvq'.n_adv # pvq.n_adv) =>
              /\ pvq'.n_adv = pvq.n_adv + 1
              /\ pvq'.last_avail_idx = (pvq.last_avail_idx + 1) % pvq.size
       /\ (pvq'.n_adv = pvq.n_adv) => pvq'.last_avail_idx = pvq.last_avail_idx
       /\ (pvq'.size = 2 /\ pvq'.n_ok = 2 /\ pvq'.n_adv = 2) =>
              (pvq'.last_avail_idx = 0 /\ pvq'.wrap_get = FALSE)]_vars

\* the size-2 scenario: the second do_get has returned OK
C25_Witness ==
    /\ pvq.size = 2 /\ pvq.n_ok = 2 /\ pvq.n_adv = 2
    /\ last.op = "packed_do_get" /\ ret = VIRTIO_OK
    /\ pvq.last_avail_idx = 0 /\ ~pvq.wrap_get

\* C26: no get or put of a queue ends in a fatal error, whatever the driver
\* wrote: the outcome is a virtio_status value and the notification decision
\* of a put a boolean.
C26_NoFatalError ==
    /\ fault = "none"
    /\ last.op \in {"packed_do_get", "packed_do_put"} => ret \in virtio_status
    /\ pvq.notify \in BOOLEAN

(***************************************************************************)
(* VirtIO input device                                                     *)
(***************************************************************************)
input_event(type, code, value) == [type |-> type, code |-> code, value |-> value]

\* m_events.push of each event of a sequence
push_all(queue, events) == queue \o events

\* the event, when the condition holds
PushIf(cond, ev) == IF cond THEN <<ev>> ELSE <<>>

\* buttons ^ m_prev_btn, on sets of bit numbers
Xor(a, b) == (a \ b) \cup (b \ a)

\* the virtqueues the device requests in identify
VirtQueues == {"VIRTQUEUE_EVENT", "VIRTQUEUE_STATUS"}

\* input::input: the device after construction. The simulator runs update
\* only when the constructor registered it as a process. The last four
\* fields are history, not program state: the events pushed and the events
\* put since the last reset, the number of buffers fetched since then, and
\* the keys the user holds down.
input_ctor(keyboard, touchpad) ==
    [mutex |-> "none", update_pc |-> "idle",
     m_events |-> <<>>, m_messages |-> <<>>,
     m_prev_symbol |-> 0, m_prev_btn |-> {}, m_prev_x |-> 0, m_prev_y |-> 0,
     keyboard |-> keyboard, touchpad |-> touchpad,
     update_registered |-> (keyboard \/ keyboard),
     generated |-> <<>>, delivered |-> <<>>, fetched |-> 0, held |-> {}]

\* the device with the default properties: touchpad and keyboard enabled
input_reset == input_ctor(TRUE, TRUE)

\* input::reset: no lock is taken
reset(d) ==
    [d EXCEPT !.m_prev_symbol = 0, !.m_prev_btn = {}, !.m_prev_x = 0, !.m_prev_y = 0,
              !.m_messages = <<>>, !.m_events = <<>>,
              !.generated = <<>>, !.delivered = <<>>, !.fetched = 0]

\* input::identify
identify(d) == reset(d)

\* input::notify: the buffer the driver made available on queue vqid is
\* fetched and kept; vqid records where it came from
notify(d, vqid) ==
    [d EXCEPT !.m_messages = Append(@, [index |-> d.fetched, vqid |-> vqid]),
              !.fetched = @ + 1]

\* input::update without the test of the transport's answer
update_put_pops_always(d, ok) ==
    [d EXCEPT !.update_pc = "trigger",
              !.m_events = Tail(@),
              !.m_messages = Tail(@),
              !.delivered = IF ok THEN Append(@, Head(d.m_events)) ELSE @]

\* input::update: the two pops when VIRTIO_IN->put succeeded
update_put(d, ok) ==
    [d EXCEPT !.update_pc = "trigger",
              !.m_events = IF ok THEN Tail(@) ELSE @,
              !.m_messages = IF ok THEN Tail(@) ELSE @,
              !.delivered = IF ok THEN Append(@, Head(d.m_events)) ELSE @]

\* what the keymap knows of a key symbol: its code, its modifiers, reserved
KeyInfos == {[key |-> 97, code |-> "KEY_A", shift |-> FALSE, reserved |-> FALSE],
             [key |-> 65, code |-> "KEY_A", shift |-> TRUE, reserved |-> FALSE],
             [key |-> 1, code |-> "KEY_RESERVED", shift |-> FALSE, reserved |-> TRUE]}

\* the key events and the pointer events (buttons, x, y) the UI delivers
KeyInputs == {<<97, TRUE>>, <<97, FALSE>>, <<65, TRUE>>, <<1, TRUE>>}
PtrInputs == {<<{}, 0, 0>>, <<{0}, 5, 0>>, <<{0, 1, 3}, 5, 5>>}

\* input::key_event: the events pushed under the lock
key_event(d, info, down) ==
    LET val == IF down THEN (IF info.key = d.m_prev_symbol THEN 2 ELSE 1) ELSE 0
        dn == IF down THEN 1 ELSE 0
    IN  IF info.reserved THEN d
        ELSE [d EXCEPT !.m_prev_symbol = IF down THEN info.key ELSE @,
                       !.m_events = push_all(@,
                           PushIf(info.shift, input_event("EV_KEY", "KEY_LEFTSHIFT", dn))
                           \o <<input_event("EV_KEY", info.code, val),
                                input_event("EV_SYN", "SYN_REPORT", 0)>>)]

\* input::ptr_event
ptr_event(d, btns, x, y) ==
    LET buttons == btns \cap {0, 1, 2}
        change == Xor(buttons, d.m_prev_btn)
        bit(n) == IF n \in buttons THEN 1 ELSE 0
        evs == PushIf(change # {},
                      input_event("EV_KEY", "BTN_TOUCH", IF d.m_prev_btn = {} THEN 1 ELSE 0))
               \o PushIf(0 \in change, input_event("EV_KEY", "BTN_TOOL_FINGER", bit(0)))
               \o PushIf(1 \in change, input_event("EV_KEY", "BTN_TOOL_TRIPLETAP", bit(1)))
               \o PushIf(2 \in change, input_event("EV_KEY", "BTN_TOOL_DOUBLETAP", bit(2)))
               \o PushIf(d.m_prev_x # x, input_event("EV_ABS", "ABS_X", x))
               \o PushIf(d.m_prev_y # y, input_event("EV_ABS", "ABS_Y", y))
        sync == PushIf(evs # <<>>, input_event("EV_SYN", "SYN_REPORT", 0))
    IN  [d EXCEPT !.m_events = push_all(@, evs \o sync),
                  !.m_prev_btn = buttons, !.m_prev_x = x, !.m_prev_y = y]

\* input::read_features: the bitmap the device reports, as a set of bits
read_features == {}

\* input::write_features
write_features(features) == TRUE

FeatureVals == {{}, {0}, {32}}

InputStep(op, arg, r) ==
    /\ UNCHANGED <<msg, svq, pvq>>
    /\ VirtStep(op, arg, r, "none")

\* the events a call pushed, added to the history
Generated(old, new) ==
    [new EXCEPT !.generated =
        @ \o SubSeq(new.m_events, Len(old.m_events) + 1, Len(new.m_events))]

\* the keys held down after a key event
Held(d, key, down) ==
    [d EXCEPT !.held = IF down THEN @ \cup {key} ELSE @ \ {key}]

\* a UI thread delivers a key through the listener the constructor added: it
\* takes the lock when it is free and releases it on return
KeyEvent ==
    \E k \in KeyInputs, info \in KeyInfos :
        /\ info.key = k[1]
        /\ inp.keyboard
        /\ inp.mutex = "none"
        /\ inp' = Held(Generated(inp, key_event(inp, info, k[2])), k[1], k[2])
        /\ InputStep("key_event", [key |-> k[1], down |-> k[2]], 0)

PtrEvent ==
    \E p \in PtrInputs :
        /\ inp.touchpad
        /\ inp.mutex = "none"
        /\ inp' = Generated(inp, ptr_event(inp, p[1], p[2], p[3]))
        /\ InputStep("ptr_event", [buttons |-> p[1], x |-> p[2], y |-> p[3]], 0)

\* the transport calls identify and notify from the simulation thread, which
\* does not preempt a running update
\* reset writes the queues without the lock: when a UI thread is inside its
\* critical section the two writes race, and either the queues are left
\* cleared or the queue is left torn
RaceOutcomes(d) == IF d.mutex = "ui" THEN {"cleared", "data_race"} ELSE {"cleared"}

Identify ==
    \E out \in RaceOutcomes(inp) :
        /\ inp.update_pc = "idle"
        /\ inp' = identify(inp)
        /\ UNCHANGED <<msg, svq, pvq>>
        /\ VirtStep("identify", 0, VirtQueues,
                    IF out = "cleared" THEN "none" ELSE out)

InputNotify ==
    \E vqid \in VirtQueues :
        /\ inp.update_pc = "idle"
        /\ inp' = notify(inp, vqid)
        /\ InputStep("notify", vqid, TRUE)

\* input::update, entry: lock_guard lock(m_events_mutex)
UpdateLock ==
    /\ inp.update_registered
    /\ inp.update_pc = "idle" /\ inp.mutex = "none"
    /\ inp' = [inp EXCEPT !.mutex = "update", !.update_pc = "check"]
    /\ InputStep("update_lock", 0, 0)

\* input::update: the test of the two queues and the copy of the event
UpdateCheck ==
    /\ inp.update_pc = "check"
    /\ inp' = [inp EXCEPT !.update_pc = IF inp.m_events # <<>> /\ inp.m_messages # <<>>
                                        THEN "put" ELSE "trigger"]
    /\ InputStep("update_check", 0, 0)

\* input::update: the call VIRTIO_IN->put, with the front buffer holding the
\* front event, and the two pops when it succeeds
UpdatePut ==
    \E ok \in BOOLEAN :
        /\ inp.update_pc = "put"
        /\ inp' = update_put(inp, ok)
        /\ InputStep("VIRTIO_IN->put",
                     [vqid |-> "VIRTQUEUE_EVENT", msg |-> Head(inp.m_messages),
                      event |-> Head(inp.m_events)], ok)

\* input::update: the call next_trigger
UpdateTrigger ==
    /\ inp.update_pc = "trigger"
    /\ inp' = [inp EXCEPT !.update_pc = "return"]
    /\ InputStep("next_trigger", 0, 0)

\* input::update returns: the lock_guard goes out of scope
UpdateReturn ==
    /\ inp.update_pc = "return"
    /\ inp' = [inp EXCEPT !.update_pc = "idle", !.mutex = "none"]
    /\ InputStep("update_return", 0, 0)

ReadFeatures ==
    /\ UNCHANGED inp
    /\ InputStep("read_features", 0, read_features)

WriteFeatures ==
    \E features \in FeatureVals :
        /\ UNCHANGED inp
        /\ InputStep("write_features", features, write_features(features))

(***************************************************************************)
(* SpecInput: UI threads deliver key and pointer events while the          *)
(* simulator runs update, identify, notify and the feature negotiation.    *)
(***************************************************************************)
InitInput ==
    /\ InitVirtio(MaxInputSteps)
    /\ inp = input_reset
    /\ msg = <<>> /\ svq = <<>> /\ pvq = <<>>

NextInput ==
    \/ KeyEvent
    \/ PtrEvent
    \/ Identify
    \/ InputNotify
    \/ UpdateLock
    \/ UpdateCheck
    \/ UpdatePut
    \/ UpdateTrigger
    \/ UpdateReturn
    \/ ReadFeatures
    \/ WriteFeatures

SpecInput == InitInput /\ [][NextInput]_vars

\* input::update from entry to return: the front event goes out in the front
\* buffer when neither queue is empty
input_update(d, ok) ==
    IF d.m_events # <<>> /\ d.m_messages # <<>>
    THEN [update_put(d, ok) EXCEPT !.update_pc = "idle"]
    ELSE d

\* the calls of VIRTIO_IN->put a run of update makes
PutCalls(d) ==
    IF d.m_events # <<>> /\ d.m_messages # <<>>
    THEN <<[vqid |-> "VIRTQUEUE_EVENT", msg |-> Head(d.m_messages),
            event |-> Head(d.m_events)]>>
    ELSE <<>>

\* a run of the polling process; ret is the answer of the transport
Update ==
    \E ok \in BOOLEAN :
        /\ inp.update_registered
        /\ inp.update_pc = "idle" /\ inp.mutex = "none"
        /\ PutCalls(inp) = <<>> => ok
        /\ inp' = input_update(inp, ok)
        /\ InputStep("update", PutCalls(inp), ok)

\* a UI thread, step by step: lock_guard lock(m_events_mutex) in key_event
\* and ptr_event, then the pushes and the return
UiLock ==
    /\ inp.keyboard \/ inp.touchpad
    /\ inp.mutex = "none"
    /\ inp' = [inp EXCEPT !.mutex = "ui"]
    /\ InputStep("ui_lock", 0, 0)

UiKeyPush ==
    \E k \in KeyInputs, info \in KeyInfos :
        /\ info.key = k[1]
        /\ inp.keyboard
        /\ inp.mutex = "ui"
        /\ inp' = [Held(Generated(inp, key_event(inp, info, k[2])), k[1], k[2])
                      EXCEPT !.mutex = "none"]
        /\ InputStep("ui_key_push", [key |-> k[1], down |-> k[2]], 0)

UiPtrPush ==
    \E p \in PtrInputs :
        /\ inp.touchpad
        /\ inp.mutex = "ui"
        /\ inp' = [Generated(inp, ptr_event(inp, p[1], p[2], p[3]))
                      EXCEPT !.mutex = "none"]
        /\ InputStep("ui_ptr_push", [buttons |-> p[1], x |-> p[2], y |-> p[3]], 0)

(***************************************************************************)
(* SpecPoll: the device is built with either setting of its keyboard and   *)
(* touchpad properties, on a display that delivers UI events.              *)
(***************************************************************************)
InitPoll ==
    /\ InitVirtio(MaxPollSteps)
    /\ \E keyboard \in BOOLEAN, touchpad \in BOOLEAN :
           inp = input_ctor(keyboard, touchpad)
    /\ msg = <<>> /\ svq = <<>> /\ pvq = <<>>

NextPoll ==
    \/ KeyEvent
    \/ PtrEvent
    \/ InputNotify
    \/ Update

SpecPoll == InitPoll /\ [][NextPoll]_vars

(***************************************************************************)
(* SpecRace: a UI thread and the simulation thread, each step by step.     *)
(***************************************************************************)
InitRace ==
    /\ InitVirtio(MaxRaceSteps)
    /\ inp = input_reset
    /\ msg = <<>> /\ svq = <<>> /\ pvq = <<>>

NextRace ==
    \/ UiLock
    \/ UiKeyPush
    \/ UiPtrPush
    \/ Identify
    \/ InputNotify
    \/ UpdateLock
    \/ UpdateCheck
    \/ UpdatePut
    \/ UpdateTrigger
    \/ UpdateReturn

SpecRace == InitRace /\ [][NextRace]_vars

(***************************************************************************)
(* SpecDeliver: keys are pressed, the driver makes buffers available on    *)
(* either queue and resets the device, the polling process runs.           *)
(***************************************************************************)
InitDeliver ==
    /\ InitVirtio(MaxDeliverSteps)
    /\ inp = input_reset
    /\ msg = <<>> /\ svq = <<>> /\ pvq = <<>>

NextDeliver ==
    \/ KeyEvent
    \/ Identify
    \/ InputNotify
    \/ Update

SpecDeliver == InitDeliver /\ [][NextDeliver]_vars

\* C27: the event-queue mutex is never held while a simulator or transport
\* call is made: when update calls VIRTIO_IN->put or next_trigger it has
\* released m_events_mutex.
C27_LockReleasedBeforeCalls ==
    [][last'.op \in {"VIRTIO_IN->put", "next_trigger"} => inp.mutex = "none"]_vars

\* C28: write_features(f) returns true exactly when f is a subset of the
\* bitmap read_features reports, so every non-zero f is rejected.
C28_FeaturesSubset ==
    last.op = "write_features" =>
        /\ ret = (last.arg \subseteq read_features)
        /\ (last.arg # {} => ret = FALSE)

(***************************************************************************)
(* Termination of the EOIR search loop                                     *)
(***************************************************************************)
\* the links followed from curr_irq[cpu]; one link more than there are
\* interrupts, so a cyclic chain shows an interrupt twice
LinksFrom(cpu) == ChainFrom(cpu, m_curr_irq[cpu], Cardinality(Irqs) + 1)

NoIrqTwice(seq) ==
    \A i, j \in 1 .. Len(seq) : i # j => seq[i] # seq[j]

\* C31: the chain that starts at curr_irq[cpu] and follows prev_irq[.][cpu]
\* holds no interrupt twice and ends at SPURIOUS, so the search loop of an
\* out-of-order EOIR write always stops.
C31_ChainAcyclic ==
    /\ \A cpu \in Cpus : NoIrqTwice(LinksFrom(cpu))
    /\ fault # "hang"

\* an EOIR write whose search loop never reaches SPURIOUS
C31_EoirHangs == fault = "hang"

(***************************************************************************)
(* Sources of a pending SGI                                                *)
(***************************************************************************)
\* C32: an SGI that is pending for a CPU has a source recorded in
\* spendsgir[cpu][sgi], so an IAR read that acknowledges an SGI finds a
\* source CPU id below 8 and never raises the 'invalid src_cpu' error.
C32_PendingSgiHasSource ==
    /\ \A cpu \in Cpus : \A sgi \in SgiIds :
           is_irq_pending(G, sgi, {cpu}) => spendsgir[cpu][sgi] # {}
    /\ fault # "error"

\* an IAR read that raised the 'invalid src_cpu' error
C32_InvalidSrcCpu == last.op = "read_iar" /\ fault = "error"

(***************************************************************************)
(* Virtual EOIR writes that name no list register                          *)
(***************************************************************************)
\* a virtual EOIR write by cpu of a virtual interrupt id that no list register
\* of cpu holds active or pending
UnmatchedVEoirBy(cpu) ==
    /\ VEoirBy(cpu)
    /\ \E val \in VEoirVals : /\ last'.arg = val
                              /\ lr_matches(G, cpu, val % 512) = {}

\* C33: a virtual EOIR write naming a virtual interrupt id that matches no
\* list register of the writing CPU in state active or pending changes
\* nothing: no list register changes its active or pending flag, no physical
\* interrupt is deactivated, and the virtual APR and RPR keep their values.
C33_UnmatchedEoirIgnored ==
    [][\A cpu \in Cpus :
          UnmatchedVEoirBy(cpu) =>
              /\ m_lr_state' = m_lr_state
              /\ active' = active
              /\ vifctrl_apr' = vifctrl_apr
              /\ vcpuif_rpr' = vcpuif_rpr]_vars

(***************************************************************************)
(* Writes of the active-priority register                                  *)
(***************************************************************************)
\* C34: a write of 0 to the vifctrl APR sets the virtual running priority of
\* the writing CPU to IDLE_PRIO, untruncated, and a write of a non-zero
\* bitmap sets it to the priority of the highest-priority level set in the
\* bitmap.
C34_AprWriteSetsRpr ==
    (last.op = "write_apr" /\ last.cpu \in Cpus) =>
        vcpuif_rpr[last.cpu] = AprPriority(BitsOf(last.arg, 31))

\* a write of 0 to APR after which the running priority is not IDLE_PRIO
C34_IdleTruncated ==
    /\ last.op = "write_apr" /\ last.cpu \in Cpus /\ last.arg = 0
    /\ vcpuif_rpr[last.cpu] = 0

\* a write of two levels to APR after which the running priority is that of
\* the lower-priority one
C34_LowestLevelWins ==
    /\ last.op = "write_apr" /\ last.cpu \in Cpus /\ last.arg = 1028
    /\ vcpuif_rpr[last.cpu] = 80

(***************************************************************************)
(* Delivery of input events                                                *)
(***************************************************************************)
\* C35: between two resets the events are delivered in the order generated,
\* each exactly once: the events put so far followed by the events still
\* queued are the events generated. A run of update calls put at most once,
\* on VIRTQUEUE_EVENT with the front buffer and the front event; it removes
\* both from their queues when put succeeded and leaves both queues
\* unchanged when put failed or when either queue was empty.
C35_InOrderExactlyOnce ==
    [][/\ last'.op # "identify" =>
              inp'.delivered \o inp'.m_events = inp'.generated
       /\ last'.op = "update" =>
              /\ last'.arg = PutCalls(inp)
              /\ Len(last'.arg) <= 1
              /\ IF last'.arg # <<>> /\ ret'
                 THEN /\ inp'.m_events = Tail(inp.m_events)
                      /\ inp'.m_messages = Tail(inp.m_messages)
                      /\ inp'.delivered = Append(inp.delivered, Head(inp.m_events))
                 ELSE /\ inp'.m_events = inp.m_events
                      /\ inp'.m_messages = inp.m_messages
                      /\ inp'.delivered = inp.delivered]_vars

\* a second event was put after the first, and more events are queued
C35_Witness ==
    /\ Len(inp.delivered) = 2
    /\ inp.m_events # <<>>
    /\ last.op = "update" /\ ret = TRUE /\ last.arg # <<>>

(***************************************************************************)
(* Key and pointer events                                                  *)
(***************************************************************************)
\* the EV_KEY event of the key itself among the events a key_event call
\* pushed: the one before the closing SYN_REPORT
KeyEventPushed(d) == d.m_events[Len(d.m_events) - 1]

SynReport == input_event("EV_SYN", "SYN_REPORT", 0)

\* C36: key_event reports value 0 for a release, 1 for a press and 2 for a
\* repeat, where a key-down is a repeat only if the same key is still held:
\* pressing, releasing and pressing the same key again yields 1, 0, 1.
C36_RepeatOnlyWhileHeld ==
    [][\A info \in KeyInfos :
          (/\ last'.op = "key_event"
           /\ last'.arg.key = info.key
           /\ ~info.reserved) =>
              KeyEventPushed(inp').value =
                  IF ~last'.arg.down THEN 0
                  ELSE IF info.key \in inp.held THEN 2 ELSE 1]_vars

\* the key a is pressed, released and pressed again, and the second press
\* is queued as a repeat
C36_PressReleasePress ==
    inp.m_events = <<input_event("EV_KEY", "KEY_A", 1), SynReport,
                     input_event("EV_KEY", "KEY_A", 0), SynReport,
                     input_event("EV_KEY", "KEY_A", 2), SynReport>>

\* the buttons of a pointer event that the device looks at
Pressed(buttons) == buttons \cap {0, 1, 2}

\* C37: BTN_TOUCH, emitted by ptr_event when the buttons change, carries
\* value 1 exactly when at least one of the three buttons is pressed after
\* the change and 0 exactly when none is, so a change from one pressed
\* button to two never emits BTN_TOUCH 0; a call that changes neither the
\* buttons nor the position appends no event.
C37_TouchIsAnyButton ==
    [][last'.op = "ptr_event" =>
          IF Pressed(last'.arg.buttons) # inp.m_prev_btn
          THEN inp'.m_events[Len(inp.m_events) + 1] =
                   input_event("EV_KEY", "BTN_TOUCH",
                               IF Pressed(last'.arg.buttons) # {} THEN 1 ELSE 0)
          ELSE (last'.arg.x = inp.m_prev_x /\ last'.arg.y = inp.m_prev_y) =>
                   inp'.m_events = inp.m_events]_vars

\* a second button went down while the first was held, and BTN_TOUCH 0 was
\* queued
C37_SecondButtonUntouches ==
    /\ last.op = "ptr_event" /\ last.arg.buttons = {0, 1, 3}
    /\ inp.m_prev_btn = {0, 1}
    /\ \E n \in 1 .. Len(inp.m_events) - 2 :
           /\ inp.m_events[n] = input_event("EV_KEY", "BTN_TOUCH", 0)
           /\ inp.m_events[n + 1] = input_event("EV_KEY", "BTN_TOOL_TRIPLETAP", 1)

(***************************************************************************)
(* The lock of the event queue                                             *)
(***************************************************************************)
\* C38: every read or write of m_events happens while m_events_mutex is
\* held by the thread that makes it, in every interleaving of the UI
\* callbacks with update, identify and reset: the simulation thread never
\* clears or pops the queue without the lock, and never while a UI thread
\* holds it.
C38_QueueAccessLocked ==
    [][/\ last'.op \in {"ui_key_push", "ui_ptr_push"} => inp.mutex = "ui"
       /\ last'.op \in {"update_check", "VIRTIO_IN->put", "identify"} =>
              inp.mutex = "update"]_vars

\* reset cleared the queues while a UI thread was inside its critical section
C38_ResetDuringPush ==
    /\ last.op = "identify" /\ inp.mutex = "ui"
    /\ fault = "data_race"

(***************************************************************************)
(* The polling process                                                     *)
(***************************************************************************)
\* C39: in every configuration in which the keyboard or the touchpad is
\* enabled the polling process update is registered, so that a queued event
\* is delivered once a buffer is available and put succeeds; in particular
\* with touchpad = true and keyboard = false.
C39_PollingRegistered ==
    (inp.keyboard \/ inp.touchpad) => inp.update_registered

\* a pointer event is queued and a buffer is available on a device whose
\* polling process does not exist
C39_EventStuck ==
    /\ inp.touchpad /\ ~inp.keyboard /\ ~inp.update_registered
    /\ inp.m_events # <<>> /\ inp.m_messages # <<>>
    /\ inp.delivered = <<>>
    /\ budget = 0

(***************************************************************************)
(* The queue a completed buffer came from                                  *)
(***************************************************************************)
\* C40: every buffer that update completes on VIRTQUEUE_EVENT was obtained
\* from the event virtqueue: a notify for the status virtqueue never causes
\* a buffer fetched from the status virtqueue to be filled with an input
\* event and put on the event virtqueue.
C40_EventBuffersOnly ==
    last.op = "update" =>
        \A n \in 1 .. Len(last.arg) : last.arg[n].msg.vqid = last.arg[n].vqid

\* a buffer of the status virtqueue went out on the event virtqueue with a
\* key event in it
C40_StatusBufferUsed ==
    /\ last.op = "update" /\ ret = TRUE
    /\ last.arg # <<>>
    /\ last.arg[1].vqid = "VIRTQUEUE_EVENT"
    /\ last.arg[1].msg.vqid = "VIRTQUEUE_STATUS"
    /\ last.arg[1].event.type = "EV_KEY"

====
